---------------------------- MODULE Spec2Model ----------------------------
(***************************************************************************)
(* A model of the parallel CDCL search worker of CryptoMiniSat             *)
(* (Solver/CommandControl.cpp): one CommandControl object per worker       *)
(* thread, the shared ThreadControl object with the three learned-clause   *)
(* logs, and the clean-up barrier inside CommandControl::solve.            *)
(*                                                                         *)
(* Conventions.  A literal is the integer 2*var+sign (sign 1 = negated),   *)
(* as Lit::toInt() packs it.  Positions in clauses, in the trail and in    *)
(* the logs are 0-based as in the C++ code; At(seq, i) reads position i.   *)
(* Operators that model a method of CommandControl / Solver take the       *)
(* worker object s (a record of its fields) and return the object after    *)
(* the call.                                                               *)
(***************************************************************************)
EXTENDS Integers, Sequences, FiniteSets, TLC

VARIABLES
    input,      \* what the coordinator hands to every worker: formula, assumptions, budget
    control,    \* the shared ThreadControl object: allocator, logs, counters
    cc,         \* cc[w]: the CommandControl object of worker w
    frame,      \* frame[w]: the locals of solve()/search() of worker w
    pc,         \* pc[w]: where worker w stands in solve()/search()
    simp        \* the Simplifier's CSet and seen array, and its last call

vars == <<input, control, cc, frame, pc, simp>>

-----------------------------------------------------------------------------
(* Bounds of the model *)

\* the conflict budgets maxConfls handed to solve are drawn from 1..MaxConflsBound
MaxConflsBound == 3

\* the two-worker run: one CommandControl per thread of the team
Workers == {1, 2}

-----------------------------------------------------------------------------
(* Literals, three-valued values, sequences *)

lit_Undef == -1

var_Undef == -1

MkLit(v, sgn) == 2 * v + (IF sgn THEN 1 ELSE 0)

VarOf(l) == l \div 2

SignOf(l) == (l % 2) = 1

\* operator~ of Lit: complement is XOR 1
Neg(l) == IF l % 2 = 0 THEN l + 1 ELSE l - 1

At(seq, i) == seq[i + 1]

SetAt(seq, i, x) == [seq EXCEPT ![i + 1] = x]

Prefix(seq, n) == SubSeq(seq, 1, n)

Range(seq) == {seq[i] : i \in 1..Len(seq)}

Max2(a, b) == IF a >= b THEN a ELSE b

Min2(a, b) == IF a <= b THEN a ELSE b

Vars(n) == 0..(n - 1)

Lits(n) == 0..(2 * n - 1)

-----------------------------------------------------------------------------
(* PropBy: the reason of an assignment, and Watched: a watch-list entry *)

PropByNull == [type |-> "null_clause_t", a |-> -1, b |-> -1]

PropByBin(l) == [type |-> "binary_t", a |-> l, b |-> -1]

PropByTri(l1, l2) == [type |-> "tertiary_t", a |-> l1, b |-> l2]

PropByClause(offset, watchNum) == [type |-> "clause_t", a |-> offset, b |-> watchNum]

WatchedBin(other, learnt) == [type |-> "binary", a |-> other, b |-> IF learnt THEN 1 ELSE 0]

WatchedTri(other1, other2) == [type |-> "tri", a |-> other1, b |-> other2]

WatchedLong(offset, blocker) == [type |-> "clause", a |-> offset, b |-> blocker]

-----------------------------------------------------------------------------
(* Solver base class: assignment, trail, decision levels *)

value(s, l) ==
    IF s.assigns[VarOf(l)] = "U" THEN "U"
    ELSE IF (s.assigns[VarOf(l)] = "T") # SignOf(l) THEN "T" ELSE "F"

decisionLevel(s) == Len(s.trail_lim)

newDecisionLevel(s) == [s EXCEPT !.trail_lim = Append(@, Len(s.trail))]

\* a failed assert(): the first one is kept, the worker aborts on it
Fail(s, what) == IF s.failed = "" THEN [s EXCEPT !.failed = what] ELSE s

\* Solver::enqueue(p, from): p becomes True at the current level
enqueue(s, p, from) ==
    [(IF value(s, p) # "U" THEN Fail(s, "enqueue: value(p) != l_Undef") ELSE s) EXCEPT !.assigns[VarOf(p)] = IF SignOf(p) THEN "F" ELSE "T",
              !.level[VarOf(p)] = decisionLevel(s),
              !.reason[VarOf(p)] = from,
              !.polarity[VarOf(p)] = ~SignOf(p),
              !.trail = Append(@, p)]


\* insertVarOrder that inserts nothing
insertVarOrderNever(s, x) == s

\* CommandControl::insertVarOrder
insertVarOrder(s, x) ==
    IF x \notin s.order_heap /\ input.decision_var[x]
    THEN [s EXCEPT !.order_heap = @ \cup {x}]
    ELSE s

\* the loop of cancelUntil over trail[trail.size()-1 .. trail_lim[level]]
RECURSIVE cancelLoop(_, _, _)
cancelLoop(s, sublevel, stop) ==
    IF sublevel < stop THEN s
    ELSE LET x == VarOf(At(s.trail, sublevel))
         IN  cancelLoop(insertVarOrder([s EXCEPT !.assigns[x] = "U"], x), sublevel - 1, stop)

\* cancelUntil that leaves the trail as it is
cancelUntilKeep(s, lvl) == s

\* cancelUntil whose loop stops one entry above trail_lim[level]
cancelUntilOffByOne(s, lvl) ==
    IF decisionLevel(s) > lvl
    THEN [cancelLoop(s, Len(s.trail) - 1, At(s.trail_lim, lvl) + 1)
              EXCEPT !.qhead = At(s.trail_lim, lvl),
                     !.trail = Prefix(s.trail, At(s.trail_lim, lvl)),
                     !.trail_lim = Prefix(s.trail_lim, lvl)]
    ELSE s

\* cancelUntil without its insertVarOrder
cancelUntilNoInsert(s, lvl) ==
    IF decisionLevel(s) > lvl
    THEN [s EXCEPT !.assigns = [x \in DOMAIN @ |->
                                   IF \E i \in At(s.trail_lim, lvl) + 1 .. Len(s.trail) :
                                         VarOf(s.trail[i]) = x
                                   THEN "U" ELSE @[x]],
                   !.qhead = At(s.trail_lim, lvl),
                   !.trail = Prefix(s.trail, At(s.trail_lim, lvl)),
                   !.trail_lim = Prefix(s.trail_lim, lvl)]
    ELSE s

\* cancelUntil with trail_lim.resize(level + 1)
cancelUntilKeepLevel(s, lvl) ==
    IF decisionLevel(s) > lvl
    THEN [cancelLoop(s, Len(s.trail) - 1, At(s.trail_lim, lvl))
              EXCEPT !.qhead = At(s.trail_lim, lvl),
                     !.trail = Prefix(s.trail, At(s.trail_lim, lvl)),
                     !.trail_lim = Prefix(s.trail_lim, lvl + 1)]
    ELSE s

\* cancelUntil that drops the propagation queue whatever the level
cancelUntilFlush(s, lvl) ==
    IF decisionLevel(s) > lvl
    THEN [cancelLoop(s, Len(s.trail) - 1, At(s.trail_lim, lvl))
              EXCEPT !.qhead = At(s.trail_lim, lvl),
                     !.trail = Prefix(s.trail, At(s.trail_lim, lvl)),
                     !.trail_lim = Prefix(s.trail_lim, lvl)]
    ELSE [s EXCEPT !.qhead = Len(s.trail)]

\* cancelUntil that leaves qhead where it is
cancelUntilSameQhead(s, lvl) ==
    IF decisionLevel(s) > lvl
    THEN [cancelLoop(s, Len(s.trail) - 1, At(s.trail_lim, lvl))
              EXCEPT !.trail = Prefix(s.trail, At(s.trail_lim, lvl)),
                     !.trail_lim = Prefix(s.trail_lim, lvl)]
    ELSE s

\* CommandControl::cancelUntil
cancelUntil(s, lvl) ==
    IF decisionLevel(s) > lvl
    THEN LET lim == At(s.trail_lim, lvl)
             u   == cancelLoop(s, Len(s.trail) - 1, lim)
         IN  [u EXCEPT !.qhead = lim,
                       !.trail = Prefix(s.trail, lim),
                       !.trail_lim = Prefix(s.trail_lim, lvl)]
    ELSE s

-----------------------------------------------------------------------------
(* Watch lists.  watches[p] holds the clauses that watch ~p, i.e. the      *)
(* entries to look at when p becomes True.                                 *)

addWatch(s, p, w) == [s EXCEPT !.watches[p] = Append(@, w)]

\* Solver::attachBinClause
attachBinClause(s, l1, l2, learnt) ==
    addWatch(addWatch(s, Neg(l1), WatchedBin(l2, learnt)), Neg(l2), WatchedBin(l1, learnt))

\* Solver::attachClause(cl, pos0, pos1): a 3-long clause is watched on all
\* three literals; a longer one on the literals at positions pos0 and pos1,
\* which clauseData[num].litPos records (the clause itself is shared between
\* the workers and is never reordered)
attachClause(s, alloc, offset, pos0, pos1) ==
    LET cl == alloc[offset]
    IN  IF Len(cl) = 3
        THEN addWatch(addWatch(addWatch(s,
                 Neg(cl[1]), WatchedTri(cl[2], cl[3])),
                 Neg(cl[2]), WatchedTri(cl[1], cl[3])),
                 Neg(cl[3]), WatchedTri(cl[1], cl[2]))
        ELSE LET t == addWatch(addWatch(s,
                          Neg(At(cl, pos0)), WatchedLong(offset, At(cl, pos1))),
                          Neg(At(cl, pos1)), WatchedLong(offset, At(cl, pos0)))
             IN  [t EXCEPT !.litPos = (offset :> <<pos0, pos1>>) @@ @]

-----------------------------------------------------------------------------
(* Solver::propagate: two-watched-literal unit propagation *)

\* first position of cl, other than the two watched ones, whose literal is not False
RECURSIVE findNewWatch(_, _, _, _)
findNewWatch(s, cl, lp, j) ==
    IF j >= Len(cl) THEN -1
    ELSE IF j # lp[1] /\ j # lp[2] /\ value(s, At(cl, j)) # "F" THEN j
    ELSE findNewWatch(s, cl, lp, j + 1)

\* a long clause whose blocking literal is not True: lp are its two watched
\* positions, the falsified one first; a new watch is looked for
propWatchLong(s, cl, offset, lp) ==
    LET first == At(cl, lp[1])
        j     == findNewWatch(s, cl, lp, 0)
    IN  IF j >= 0
        THEN [s |-> addWatch([s EXCEPT !.litPos[offset] = <<lp[1], j>>],
                             Neg(At(cl, j)), WatchedLong(offset, first)),
              keep |-> FALSE, confl |-> PropByNull]
        ELSE IF value(s, first) = "T"
        THEN [s |-> s, keep |-> TRUE, confl |-> PropByNull]
        ELSE IF value(s, first) = "U"
        THEN [s |-> enqueue(s, first, PropByClause(offset, 0)), keep |-> TRUE, confl |-> PropByNull]
        ELSE [s |-> s, keep |-> TRUE, confl |-> PropByClause(offset, 0)]

\* one entry w of the watch list of the True literal p.  Result: the worker,
\* whether the entry stays in the list of p, and the conflict found (if any)
propWatch(s, alloc, p, w) ==
    CASE w.type = "binary" ->
            LET val == value(s, w.a)
            IN  IF val = "U"
                THEN [s |-> enqueue(s, w.a, PropByBin(Neg(p))), keep |-> TRUE, confl |-> PropByNull]
                ELSE IF val = "F"
                THEN [s |-> [s EXCEPT !.failBinLit = w.a], keep |-> TRUE, confl |-> PropByBin(Neg(p))]
                ELSE [s |-> s, keep |-> TRUE, confl |-> PropByNull]
      [] w.type = "tri" ->
            LET v1 == value(s, w.a)
                v2 == value(s, w.b)
            IN  IF v1 = "T" \/ v2 = "T" THEN [s |-> s, keep |-> TRUE, confl |-> PropByNull]
                ELSE IF v1 = "U" /\ v2 = "F"
                THEN [s |-> enqueue(s, w.a, PropByTri(Neg(p), w.b)), keep |-> TRUE, confl |-> PropByNull]
                ELSE IF v2 = "U" /\ v1 = "F"
                THEN [s |-> enqueue(s, w.b, PropByTri(Neg(p), w.a)), keep |-> TRUE, confl |-> PropByNull]
                ELSE IF v1 = "F" /\ v2 = "F"
                THEN [s |-> [s EXCEPT !.failBinLit = w.a], keep |-> TRUE, confl |-> PropByTri(Neg(p), w.b)]
                ELSE [s |-> s, keep |-> TRUE, confl |-> PropByNull]
      [] OTHER ->
            IF value(s, w.b) = "T" THEN [s |-> s, keep |-> TRUE, confl |-> PropByNull]
            ELSE
            LET offset == w.a
                cl     == alloc[offset]
                old    == s.litPos[offset]
                \* the falsified watched literal goes to watch 1
                lp     == IF At(cl, old[1]) = Neg(p) THEN <<old[2], old[1]>> ELSE old
            IN  propWatchLong([s EXCEPT !.litPos[offset] = lp], cl, offset, lp)

RECURSIVE propList(_, _, _, _, _, _)

\* the watch list ws of p after its entry i, r being what propWatch has
\* made of that entry
propListNext(r, alloc, p, ws, i, kept) ==
    LET k == IF r.keep THEN Append(kept, ws[i]) ELSE kept
    IN  IF r.confl.type # "null_clause_t"
        THEN [s |-> [r.s EXCEPT !.watches[p] = k \o SubSeq(ws, i + 1, Len(ws))],
              confl |-> r.confl]
        ELSE propList(r.s, alloc, p, ws, i + 1, k)

\* the watch list ws of p from entry i on; kept collects the entries that stay
propList(s, alloc, p, ws, i, kept) ==
    IF i > Len(ws) THEN [s |-> [s EXCEPT !.watches[p] = kept], confl |-> PropByNull]
    ELSE propListNext(propWatch(s, alloc, p, ws[i]), alloc, p, ws, i, kept)

RECURSIVE propagate(_, _)

\* propagate after the watch list of one literal, r being what propList has
\* made of it: on a conflict the queue is dropped (qhead = trail.size())
propagateNext(r, alloc) ==
    IF r.confl.type # "null_clause_t"
    THEN [s |-> [r.s EXCEPT !.qhead = Len(r.s.trail)], confl |-> r.confl]
    ELSE propagate(r.s, alloc)

\* Solver::propagate: drains the queue trail[qhead..]
propagate(s, alloc) ==
    IF s.qhead >= Len(s.trail) THEN [s |-> s, confl |-> PropByNull]
    ELSE LET p == At(s.trail, s.qhead)
         IN  propagateNext(propList([s EXCEPT !.qhead = @ + 1], alloc, p,
                                    s.watches[p], 1, <<>>), alloc)


-----------------------------------------------------------------------------
(* Conflict analysis *)

\* the body shared by every literal q of the clause resolved on in analyze:
\* st = [seen, pathC, out_learnt]
analyzeLit(s, st, q) ==
    LET x == VarOf(q)
    IN  IF s.level[x] > 0 /\ st.seen[x] = 0
        THEN IF s.level[x] = decisionLevel(s)
             THEN [st EXCEPT !.seen[x] = 1, !.pathC = @ + 1]
             ELSE [st EXCEPT !.seen[x] = 1, !.out_learnt = Append(@, q)]
        ELSE st

\* case clause_t of analyze: every position j of the clause but the pivot's
RECURSIVE analyzeClause(_, _, _, _, _)
analyzeClause(s, st, cl, skip, j) ==
    IF j >= Len(cl) THEN st
    ELSE IF j = skip THEN analyzeClause(s, st, cl, skip, j + 1)
    ELSE analyzeClause(s, analyzeLit(s, st, At(cl, j)), cl, skip, j + 1)

\* the switch over confl.getType() in analyze; p is the pivot (lit_Undef for the conflict)
analyzeReason(s, alloc, st, confl, p) ==
    CASE confl.type = "tertiary_t" ->
            LET st1 == analyzeLit(s, st, confl.b)
                st2 == IF p = lit_Undef THEN analyzeLit(s, st1, s.failBinLit) ELSE st1
            IN  analyzeLit(s, st2, confl.a)
      [] confl.type = "binary_t" ->
            LET st1 == IF p = lit_Undef THEN analyzeLit(s, st, s.failBinLit) ELSE st
            IN  analyzeLit(s, st1, confl.a)
      [] confl.type = "clause_t" ->
            analyzeClause(s, st, alloc[confl.a],
                          IF p # lit_Undef THEN s.litPos[confl.a][confl.b + 1] ELSE -1, 0)
      [] OTHER -> [st EXCEPT !.failed = "analyze: Error in conflict analysis"]

\* while (!seen[trail[index--].var()]): the index of the next seen trail literal, -1 if none
RECURSIVE nextSeen(_, _, _)
nextSeen(s, seen, index) ==
    IF index < 0 THEN -1
    ELSE IF seen[VarOf(At(s.trail, index))] # 0 THEN index
    ELSE nextSeen(s, seen, index - 1)

RECURSIVE analyzeLoop(_, _, _, _, _, _)

\* "Select next implication to look at": the second half of the loop body of
\* analyze, st1 being the state the switch over the reason has left
analyzeSelect(s, alloc, st1, index) ==
    LET i == nextSeen(s, st1.seen, index)
        q == At(s.trail, i)
    IN  IF st1.failed # "" THEN st1
        ELSE IF i < 0 THEN [st1 EXCEPT !.failed = "analyze: walked below the trail"]
        ELSE IF st1.pathC - 1 > 0
        THEN analyzeLoop(s, alloc,
                         [st1 EXCEPT !.seen[VarOf(q)] = 0, !.pathC = @ - 1, !.p = q],
                         s.reason[VarOf(q)], q, i - 1)
        ELSE [st1 EXCEPT !.seen[VarOf(q)] = 0, !.pathC = @ - 1, !.p = q]

\* the do { } while (pathC > 0) loop of analyze
analyzeLoop(s, alloc, st, confl, p, index) ==
    analyzeSelect(s, alloc, analyzeReason(s, alloc, st, confl, p), index)

\* Solver::calcNBLevels: the number of distinct decision levels of the literals
calcNBLevels(s, lits) == Cardinality({s.level[VarOf(lits[i])] : i \in 1..Len(lits)})

\* seen[l] = 0 for every literal l of the sequence
RECURSIVE clearSeenLits(_, _, _)
clearSeenLits(seen, lits, i) ==
    IF i > Len(lits) THEN seen
    ELSE clearSeenLits([seen EXCEPT ![lits[i]] = 0], lits, i + 1)

\* the watch-list part of minimiseLearntFurther for one literal: entries ws[i..]
RECURSIVE minimWatches(_, _, _)
minimWatches(seen, ws, i) ==
    IF i > Len(ws) THEN seen
    ELSE LET w == ws[i]
         IN  IF w.type = "binary"
             THEN minimWatches([seen EXCEPT ![Neg(w.a)] = 0], ws, i + 1)
             ELSE IF w.type = "tri"
             THEN LET s1 == IF seen[w.b] # 0 THEN [seen EXCEPT ![Neg(w.a)] = 0] ELSE seen
                      s2 == IF s1[w.a] # 0 THEN [s1 EXCEPT ![Neg(w.b)] = 0] ELSE s1
                  IN  minimWatches(s2, ws, i + 1)
             ELSE minimWatches(seen, ws, i + 1)

\* the loop of minimiseLearntFurther over the literals cl[i..] of the clause
RECURSIVE minimLoop(_, _, _, _)
minimLoop(s, seen, cl, i) ==
    IF i > Len(cl) THEN seen
    ELSE IF seen[cl[i]] = 0 THEN minimLoop(s, seen, cl, i + 1)
    ELSE LET lit == cl[i]
             c1  == clearSeenLits(seen, [k \in 1..Len(input.implCache[lit]) |->
                                            Neg(input.implCache[lit][k])], 1)
             c2  == minimWatches(c1, s.watches[Neg(lit)], 1)
         IN  minimLoop(s, c2, cl, i + 1)

\* the literals of cl whose seen flag is set, in their order
RECURSIVE keepSeen(_, _, _)
keepSeen(seen, cl, i) ==
    IF i > Len(cl) THEN <<>>
    ELSE (IF seen[cl[i]] # 0 THEN <<cl[i]>> ELSE <<>>) \o keepSeen(seen, cl, i + 1)

\* the end of minimiseLearntFurther: the literals whose flag the loop has left
\* set are kept, and the flags of the clause are cleared
minimKeep(s, seen, cl) ==
    [s  |-> [s EXCEPT !.seen = clearSeenLits(seen, cl, 1),
                      !.furtherClMinim = @ + 1],
     cl |-> keepSeen(seen, cl, 1)]

\* minimiseLearntFurther without "never remove the 0th literal"
minimiseLearntFurtherAnyLit(s, cl) ==
    IF ~input.doCache
    THEN [s |-> Fail(s, "minimiseLearntFurther: conf.doCache"), cl |-> cl]
    ELSE minimKeep(s,
                   minimLoop(s, [l \in DOMAIN s.seen |->
                                    IF l \in Range(cl) THEN 1 ELSE s.seen[l]],
                             cl, 1),
                   cl)

\* CommandControl::minimiseLearntFurther: [s, cl]
minimiseLearntFurther(s, cl) ==
    IF ~input.doCache
    THEN [s |-> Fail(s, "minimiseLearntFurther: conf.doCache"), cl |-> cl]
    ELSE minimKeep(s,
                   [minimLoop(s, [l \in DOMAIN s.seen |->
                                     IF l \in Range(cl) THEN 1 ELSE s.seen[l]],
                              cl, 1)
                       EXCEPT ![cl[1]] = 1],
                   cl)

\* the search that stays at the position it starts from
maxLevelPosFirst(s, lits, i, max_i) == max_i

\* the position (1-based) of the highest-level literal among lits[2..]
RECURSIVE maxLevelPos(_, _, _, _)
maxLevelPos(s, lits, i, max_i) ==
    IF i > Len(lits) THEN max_i
    ELSE maxLevelPos(s, lits, i + 1,
                     IF s.level[VarOf(lits[i])] > s.level[VarOf(lits[max_i])] THEN i ELSE max_i)

\* "Find correct backtrack level": the end of analyze, m being what
\* minimiseLearntFurther has returned
analyzeBacktrack(m) ==
    LET cl      == m.cl
        max_i   == IF Len(cl) <= 1 THEN 1 ELSE maxLevelPos(m.s, cl, 3, 2)
        swapped == IF Len(cl) <= 1 THEN cl
                   ELSE [cl EXCEPT ![2] = cl[max_i], ![max_i] = cl[2]]
    IN  [s |-> m.s,
         out_learnt |-> swapped,
         out_btlevel |-> IF Len(cl) <= 1 THEN 0 ELSE m.s.level[VarOf(swapped[2])],
         glue |-> calcNBLevels(m.s, cl)]

\* analyze after its loop, st being the state the loop has left
analyzeLearnt(s, st) ==
    IF st.failed # "" \/ s.failed # "" \/ st.pathC # 0
    THEN [s |-> Fail(Fail(s, st.failed), "analyze: pathC == 0"),
          out_learnt |-> <<>>, out_btlevel |-> 0, glue |-> 0]
    ELSE
    LET learnt0 == [st.out_learnt EXCEPT ![1] = Neg(st.p)]
    IN  \* Clear seen: indexed by variable here
        analyzeBacktrack(minimiseLearntFurther(
            [s EXCEPT !.seen = clearSeenLits(st.seen,
                                   [k \in 1..Len(learnt0) |-> VarOf(learnt0[k])], 1)],
            learnt0))

\* analyze from its assert on, up to the end of its loop
analyzeStart(s, alloc, confl) ==
    analyzeLearnt(s, analyzeLoop(s, alloc,
                      [seen |-> s.seen, pathC |-> 0, out_learnt |-> <<lit_Undef>>,
                       p |-> lit_Undef, failed |-> ""],
                      confl, lit_Undef, Len(s.trail) - 1))

\* CommandControl::analyze: [s, out_learnt, out_btlevel, glue]
analyze(s, alloc, confl) ==
    analyzeStart(IF decisionLevel(s) > 0 THEN s ELSE Fail(s, "analyze: decisionLevel() > 0"),
                 alloc, confl)

\* analyzeFinal marks the variable of literal l of a reason
analyzeFinalMark(s, seen, l) ==
    IF s.level[VarOf(l)] > 0 THEN [seen EXCEPT ![VarOf(l)] = 1] ELSE seen

\* case clause_t of analyzeFinal: the positions j.. of the clause
RECURSIVE analyzeFinalClause(_, _, _, _)
analyzeFinalClause(s, seen, cl, j) ==
    IF j >= Len(cl) THEN seen
    ELSE analyzeFinalClause(s, analyzeFinalMark(s, seen, At(cl, j)), cl, j + 1)

\* the trail walk of analyzeFinal from index i down to trail_lim[0]: [seen, out]
RECURSIVE analyzeFinalLoop(_, _, _, _, _)
analyzeFinalLoop(s, alloc, seen, out, i) ==
    IF i < At(s.trail_lim, 0) THEN [seen |-> seen, out |-> out, failed |-> ""]
    ELSE
    LET x == VarOf(At(s.trail, i))
    IN  IF seen[x] = 0 THEN [seen |-> seen, out |-> out, failed |-> ""]
        ELSE IF s.reason[x].type = "null_clause_t"
        THEN IF s.level[x] > 0
             THEN analyzeFinalLoop(s, alloc, [seen EXCEPT ![x] = 0],
                                   Append(out, Neg(At(s.trail, i))), i - 1)
             ELSE [seen |-> seen, out |-> out, failed |-> "analyzeFinal: varData[x].level > 0"]
        ELSE
        LET confl == s.reason[x]
            seen1 == CASE confl.type = "tertiary_t" ->
                            analyzeFinalMark(s, analyzeFinalMark(s, seen, confl.b), confl.a)
                       [] confl.type = "binary_t" -> analyzeFinalMark(s, seen, confl.a)
                       [] OTHER -> analyzeFinalClause(s, seen, alloc[confl.a], 1)
        IN  analyzeFinalLoop(s, alloc, [seen1 EXCEPT ![x] = 0], out, i - 1)

\* analyzeFinal that reports the assumption itself and nothing else
analyzeFinalAssumption(s, alloc, p) == [s EXCEPT !.conflict = <<Neg(p)>>]

\* CommandControl::analyzeFinal(p, conflict)
analyzeFinal(s, alloc, p) ==
    IF decisionLevel(s) = 0 THEN [s EXCEPT !.conflict = <<p>>]
    ELSE LET r == analyzeFinalLoop(s, alloc, [s.seen EXCEPT ![VarOf(p)] = 1], <<p>>,
                                   Len(s.trail) - 1)
         IN  [Fail(s, r.failed) EXCEPT !.conflict = r.out,
                                       !.seen = [r.seen EXCEPT ![VarOf(p)] = 0]]


-----------------------------------------------------------------------------
(* The shared ThreadControl object *)

\* History variable from: the thread that appended each entry of the logs.
\* stamp marks the entries appended since the last stamp as those of thread w.
RECURSIVE pad(_, _, _)
pad(seq, n, w) == IF Len(seq) >= n THEN seq ELSE pad(Append(seq, w), n, w)

stamp(ctl, w) ==
    [ctl EXCEPT !.from = [unit |-> pad(@.unit, Len(ctl.unitLearntsToAdd), w),
                          bin  |-> pad(@.bin, Len(ctl.binLearntsToAdd), w),
                          long |-> pad(@.long, Len(ctl.longLearntsToAdd), w)]]

\* ThreadControl::newClauseByThread(lits, glue, thisSumConflicts): the clause
\* goes to the log of its size (a long one is allocated first); the global
\* conflict counter advances and is handed back: [ctl, offset]
newClauseByThread(ctl, lits) ==
    LET c1 == [ctl EXCEPT !.sumConflicts = @ + 1]
    IN  CASE Len(lits) = 1 ->
                [ctl |-> [c1 EXCEPT !.unitLearntsToAdd = Append(@, lits[1])], offset |-> 0]
          [] Len(lits) = 2 ->
                [ctl |-> [c1 EXCEPT !.binLearntsToAdd = Append(@, lits)], offset |-> 0]
          [] OTHER ->
                [ctl |-> [c1 EXCEPT !.clAllocator = Append(@, lits),
                                    !.longLearntsToAdd = Append(@, Len(ctl.clAllocator) + 1)],
                 offset |-> Len(ctl.clAllocator) + 1]

\* CommandControl::syncFromThreadControl.  got and gotFrom are history
\* variables: the positions of the logs whose entries this worker has copied
\* to its inbox since the last clean-up, and the threads whose entries it has
\* ever copied.
syncFromThreadControl(s, ctl) ==
    [s EXCEPT !.gotFrom = @ \cup {ctl.from.unit[i] : i \in s.lastUnit + 1 .. Len(ctl.unitLearntsToAdd)}
                            \cup {ctl.from.bin[i] : i \in s.lastBin + 1 .. Len(ctl.binLearntsToAdd)}
                            \cup {ctl.from.long[i] : i \in s.lastLong + 1 .. Len(ctl.longLearntsToAdd)},
              !.got = [unit |-> @.unit \cup (s.lastUnit + 1 .. Len(ctl.unitLearntsToAdd)),
                       bin  |-> @.bin \cup (s.lastBin + 1 .. Len(ctl.binLearntsToAdd)),
                       long |-> @.long \cup (s.lastLong + 1 .. Len(ctl.longLearntsToAdd))],
              !.longToAdd = @ \o SubSeq(ctl.longLearntsToAdd, s.lastLong + 1, Len(ctl.longLearntsToAdd)),
              !.lastLong = Len(ctl.longLearntsToAdd),
              !.binToAdd = @ \o SubSeq(ctl.binLearntsToAdd, s.lastBin + 1, Len(ctl.binLearntsToAdd)),
              !.lastBin = Len(ctl.binLearntsToAdd),
              !.unitToAdd = @ \o SubSeq(ctl.unitLearntsToAdd, s.lastUnit + 1, Len(ctl.unitLearntsToAdd)),
              !.lastUnit = Len(ctl.unitLearntsToAdd)]

\* addToThreads that publishes nothing
addToThreadsNone(s, ctl, i) == [s |-> s, ctl |-> ctl]

\* CommandControl::addToThreads(oldTrailSize): [s, ctl]
RECURSIVE addToThreads(_, _, _)
addToThreads(s, ctl, i) ==
    IF i >= Len(s.trail) THEN [s |-> s, ctl |-> ctl]
    ELSE LET r == newClauseByThread(ctl, <<At(s.trail, i)>>)
         IN  addToThreads([s EXCEPT !.lastSumConfl = r.ctl.sumConflicts, !.lastUnit = @ + 1],
                          r.ctl, i + 1)

-----------------------------------------------------------------------------
(* Integration of the clauses of the peers *)

\* handleNewBin that attaches the clause and looks at no value
handleNewBinAttachOnly(s0, binCl) ==
    [s |-> attachBinClause(s0, binCl[1], binCl[2], TRUE), ret |-> TRUE]

\* CommandControl::handleNewBin: [s, ret]
handleNewBin(s0, binCl) ==
    LET s == attachBinClause(s0, binCl[1], binCl[2], TRUE)
    IN  IF value(s, binCl[1]) = "T" \/ value(s, binCl[2]) = "T" THEN [s |-> s, ret |-> TRUE]
        ELSE
        LET \* If one is unassigned, it should be the first
            sw == value(s, binCl[2]) = "U"
            a0 == IF sw THEN binCl[2] ELSE binCl[1]
            a1 == IF sw THEN binCl[1] ELSE binCl[2]
        IN  IF value(s, a1) = "U" THEN [s |-> s, ret |-> TRUE]
            ELSE IF value(s, a0) = "U" THEN [s |-> enqueue(s, a0, PropByBin(a1)), ret |-> TRUE]
            ELSE
            LET \* Both false: lits[0] is assigned at the highest level
                sw2 == s.level[VarOf(a0)] < s.level[VarOf(a1)]
                b0  == IF sw2 THEN a1 ELSE a0
                b1  == IF sw2 THEN a0 ELSE a1
            IN  IF s.level[VarOf(b0)] = 0
                THEN [s |-> [cancelUntil(s, 0) EXCEPT !.ok = FALSE], ret |-> FALSE]
                ELSE LET c == cancelUntil(s, s.level[VarOf(b0)] - 1)
                     IN  IF value(c, b1) = "F"
                         THEN [s |-> enqueue(c, b0, PropByBin(b1)), ret |-> TRUE]
                         ELSE [s |-> IF c.level[VarOf(b0)] = c.level[VarOf(b1)] THEN c
                                     ELSE Fail(c, "handleNewBin: levels differ"),
                               ret |-> TRUE]

\* the order that looks at the values and not at the levels
MyAttachSorterNoLevel(s, cl, a, b) ==
    \/ value(s, At(cl, a)) = "T" /\ value(s, At(cl, b)) # "T"
    \/ value(s, At(cl, a)) = "U" /\ value(s, At(cl, b)) = "F"

\* MyAttachSorter::operator(): position a of cl sorts before position b
MyAttachSorter(s, cl, a, b) ==
    LET val1 == value(s, At(cl, a))
        val2 == value(s, At(cl, b))
    IN  IF val1 = "T" /\ val2 # "T" THEN TRUE
        ELSE IF val2 = "T" /\ val1 # "T" THEN FALSE
        ELSE IF val1 = "U" /\ val2 # "U" THEN TRUE
        ELSE IF val2 = "U" /\ val1 # "U" THEN FALSE
        ELSE s.level[VarOf(At(cl, a))] > s.level[VarOf(At(cl, b))]

\* insertion of position x into the sorted sequence of positions (std::sort
\* on these short ranges is an insertion sort)
RECURSIVE attachInsert(_, _, _, _)
attachInsert(s, cl, sorted, x) ==
    IF sorted = <<>> THEN <<x>>
    ELSE IF MyAttachSorter(s, cl, x, sorted[Len(sorted)])
    THEN Append(attachInsert(s, cl, Prefix(sorted, Len(sorted) - 1), x), sorted[Len(sorted)])
    ELSE Append(sorted, x)

RECURSIVE attachSort(_, _, _)
attachSort(s, cl, n) ==
    IF n = 0 THEN <<>> ELSE attachInsert(s, cl, attachSort(s, cl, n - 1), n - 1)

\* all of cl[lits[1..]] are False
restFalse(s, cl, lits) == \A i \in 2..Len(lits) : value(s, At(cl, lits[i])) = "F"

\* the enqueue of the top literal with the second watch named as its position
enqueueLongSecond(s, cl, lits, offset) ==
    IF Len(cl) = 3
    THEN enqueue(s, At(cl, lits[1]), PropByTri(At(cl, lits[2]), At(cl, lits[3])))
    ELSE enqueue(s, At(cl, lits[1]), PropByClause(offset, 1))

\* the enqueue of the top literal of an imported long clause
enqueueLong(s, cl, lits, offset) ==
    IF Len(cl) = 3
    THEN enqueue(s, At(cl, lits[1]), PropByTri(At(cl, lits[2]), At(cl, lits[3])))
    ELSE enqueue(s, At(cl, lits[1]), PropByClause(offset, 0))

\* handleNewLong after its cancelUntil(lastLevel-1), which has left c
handleNewLongBack(c, cl, lits, offset) ==
    LET top == At(cl, lits[1])
        snd == At(cl, lits[2])
        c1  == IF value(c, top) = "U" THEN c
               ELSE Fail(c, "handleNewLong: value(cl[lits[0]]) == l_Undef")
    IN  IF value(c1, snd) = "F"
        THEN [s |-> enqueueLong(IF restFalse(c1, cl, lits) THEN c1
                                ELSE Fail(c1, "handleNewLong: rest not False"),
                                cl, lits, offset),
              ret |-> TRUE]
        ELSE [s |-> IF c1.level[VarOf(top)] = c1.level[VarOf(snd)] THEN c1
                    ELSE Fail(c1, "handleNewLong: levels differ"),
              ret |-> TRUE]

\* handleNewLong after its attachClause, which has left s
handleNewLongAttached(s, cl, lits, offset) ==
    LET top == At(cl, lits[1])
        snd == At(cl, lits[2])
    IN  IF (value(s, top) = "U" /\ value(s, snd) = "U") \/ value(s, top) = "T"
        THEN [s |-> s, ret |-> TRUE]
        ELSE
        LET s1 == IF restFalse(s, cl, lits) THEN s
                  ELSE Fail(s, "handleNewLong: value(cl[lits[i]]) == l_False")
            lastLevel == s.level[VarOf(top)]
        IN  IF value(s, top) = "U" THEN [s |-> enqueueLong(s1, cl, lits, offset), ret |-> TRUE]
            ELSE IF lastLevel = 0 THEN [s |-> [s1 EXCEPT !.ok = FALSE], ret |-> FALSE]
            ELSE handleNewLongBack(cancelUntil(s1, lastLevel - 1), cl, lits, offset)

\* CommandControl::handleNewLong: [s, ret]
handleNewLong(s, alloc, offset) ==
    LET cl   == alloc[offset]
        lits == attachSort(s, cl, Len(cl))
    IN  handleNewLongAttached(attachClause(s, alloc, offset, lits[1], lits[2]),
                              cl, lits, offset)

RECURSIVE addUnits(_, _)

\* the loop over the units without its cancelUntil(0): a unit is judged by
\* its value at the current decision level
addUnitsNoBacktrack(s, i) ==
    IF i > Len(s.unitToAdd) THEN [s |-> [s EXCEPT !.unitToAdd = <<>>], ret |-> TRUE]
    ELSE IF value(s, s.unitToAdd[i]) = "T" THEN addUnits(s, i + 1)
    ELSE IF value(s, s.unitToAdd[i]) = "U"
    THEN addUnits(enqueue(s, s.unitToAdd[i], PropByNull), i + 1)
    ELSE [s |-> s, ret |-> FALSE]

\* the loop of addOtherClauses over unitToAdd[i..]
addUnits(s, i) ==
    IF i > Len(s.unitToAdd) THEN [s |-> [s EXCEPT !.unitToAdd = <<>>], ret |-> TRUE]
    ELSE LET lit == s.unitToAdd[i]
         IN  IF value(s, lit) = "T" /\ s.level[VarOf(lit)] = 0 THEN addUnits(s, i + 1)
             ELSE LET c == cancelUntil(s, 0)
                  IN  IF value(c, lit) = "U" THEN addUnits(enqueue(c, lit, PropByNull), i + 1)
                      ELSE [s |-> c, ret |-> FALSE]

RECURSIVE addBins(_, _)

\* if (!handleNewBin(*it)) return false
addBinsNext(r, i) == IF r.ret THEN addBins(r.s, i + 1) ELSE r

\* the loop of addOtherClauses over binToAdd[i..]
addBins(s, i) ==
    IF i > Len(s.binToAdd) THEN [s |-> [s EXCEPT !.binToAdd = <<>>], ret |-> TRUE]
    ELSE addBinsNext(handleNewBin(s, s.binToAdd[i]), i)

RECURSIVE addLongs(_, _, _)

\* if (!handleNewLong(*it)) return false
addLongsNext(r, alloc, i) == IF r.ret THEN addLongs(r.s, alloc, i + 1) ELSE r

\* the loop of addOtherClauses over longToAdd[i..]
addLongs(s, alloc, i) ==
    IF i > Len(s.longToAdd) THEN [s |-> [s EXCEPT !.longToAdd = <<>>], ret |-> TRUE]
    ELSE addLongsNext(handleNewLong(s, alloc, s.longToAdd[i]), alloc, i)

\* addOtherClauses after its binary clauses, b being what their loop has returned
addOtherLongs(b, alloc) == IF ~b.ret THEN b ELSE addLongs(b.s, alloc, 1)

\* addOtherClauses after its units, u being what their loop has returned
addOtherBins(u, alloc) == IF ~u.ret THEN u ELSE addOtherLongs(addBins(u.s, 1), alloc)

\* CommandControl::addOtherClauses: [s, ret]
addOtherClauses(s, alloc) ==
    addOtherBins(addUnits(IF s.ok THEN s ELSE Fail(s, "addOtherClauses: ok"), 1), alloc)


-----------------------------------------------------------------------------
(* Branching *)

\* the variables order_heap.removeMin() may hand out: those of the highest
\* activity; the heap is free in how it orders variables of equal activity
heapMin(s) ==
    {x \in s.order_heap : \A y \in s.order_heap : s.activity[y] <= s.activity[x]}

\* the test that lets every variable of the heap be branched on
canBranchAny(s, x) == TRUE

\* value(next) == l_Undef && control->decision_var[next]
canBranch(s, x) == s.assigns[x] = "U" /\ input.decision_var[x]

\* the "Activity based decision" loop of pickBranchLit: the set of [s, next]
RECURSIVE activityLoop(_)
activityLoop(s) ==
    IF s.order_heap = {} THEN {[s |-> s, next |-> lit_Undef]}
    ELSE UNION {
           LET popped  == [s EXCEPT !.order_heap = @ \ {x}]
               nextLit == MkLit(x, ~s.polarity[x])
               lit2    == input.litReachable[nextLit]
           IN  IF ~canBranch(s, x) THEN activityLoop(popped)
               ELSE {[s |-> popped, next |-> nextLit]}
                    \cup
                    \* the dominating literal, picked 50% of the time
                    (IF lit2 # lit_Undef /\ canBranch(s, VarOf(lit2))
                     THEN {[s |-> insertVarOrder(popped, x), next |-> lit2]}
                     ELSE {}) :
           x \in heapMin(s)}

\* CommandControl::pickBranchLit: the set of possible results [s, next]
pickBranchLit(s) ==
    \* Random decision: any variable of the heap, which stays in the heap
    {[s |-> [s EXCEPT !.rnd_decisions = @ + 1], next |-> MkLit(x, ~s.polarity[x])] :
          x \in {y \in s.order_heap : input.random_var_freq /\ canBranch(s, y)}}
    \cup
    \* Activity based decision: no random pick, or a random pick that cannot
    \* be branched on
    activityLoop(s)

\* new_decision without its loop over the assumptions
assumptionLoopSkip(s, alloc) == [s |-> s, next |-> lit_Undef, ret |-> "l_Undef"]

\* the while loop of new_decision over the assumptions: [s, next, ret]
RECURSIVE assumptionLoop(_, _)
assumptionLoop(s, alloc) ==
    IF decisionLevel(s) >= Len(s.assumptions) THEN [s |-> s, next |-> lit_Undef, ret |-> "l_Undef"]
    ELSE LET p == At(s.assumptions, decisionLevel(s))
         IN  IF value(s, p) = "T" THEN assumptionLoop(newDecisionLevel(s), alloc)
             ELSE IF value(s, p) = "F"
             THEN [s |-> analyzeFinal(s, alloc, Neg(p)), next |-> lit_Undef, ret |-> "l_False"]
             ELSE [s |-> s, next |-> p, ret |-> "l_Undef"]

\* Increase decision level and enqueue 'next'
decide(s, next) ==
    enqueue(newDecisionLevel(IF value(s, next) = "U" THEN s
                             ELSE Fail(s, "new_decision: value(next) == l_Undef")),
            next, PropByNull)

\* new_decision without "New variable decision": l_True as soon as the
\* assumptions are dealt with
new_decisionNoBranch(s, alloc) ==
    LET a == assumptionLoop(s, alloc)
    IN  IF a.ret = "l_False" THEN {[s |-> a.s, ret |-> "l_False"]}
        ELSE IF a.next # lit_Undef THEN {[s |-> decide(a.s, a.next), ret |-> "l_Undef"]}
        ELSE {[s |-> a.s, ret |-> "l_True"]}

\* new_decision after its loop over the assumptions, which has returned a
new_decisionBranch(a) ==
    IF a.ret = "l_False" THEN {[s |-> a.s, ret |-> "l_False"]}
    ELSE IF a.next # lit_Undef THEN {[s |-> decide(a.s, a.next), ret |-> "l_Undef"]}
    ELSE \* New variable decision
         {IF r.next = lit_Undef
          THEN [s |-> r.s, ret |-> "l_True"]
          ELSE [s |-> decide(r.s, r.next), ret |-> "l_Undef"] :
              r \in pickBranchLit([a.s EXCEPT !.decisions = @ + 1])}

\* CommandControl::new_decision: the set of possible results [s, ret]
new_decision(s, alloc) == new_decisionBranch(assumptionLoop(s, alloc))

-----------------------------------------------------------------------------
(* Conflicts *)

\* conf.numTooLowAgilitiesLimit
numTooLowAgilitiesLimit == 0

\* AgilityData::tooLow: one more conflict met with the agility under the limit
tooLow(s) == [s EXCEPT !.numTooLow = @ + 1]

\* AgilityData::reset
agilityReset(s) == [s EXCEPT !.numTooLow = 0]

\* checkNeedRestart that does not look at the budget of conflicts
checkNeedRestartNoBudget(s0, params, below) ==
    LET s == IF below THEN tooLow(s0) ELSE s0
    IN  [s |-> s,
         params |-> [params EXCEPT !.needToStopSearch =
                        @ \/ s.needToInterrupt \/ s.numTooLow > numTooLowAgilitiesLimit]]

\* CommandControl::checkNeedRestart: [s, params]; below: agility.getAgility()
\* < conf.agilityLimit at this conflict
checkNeedRestart(s0, params, below) ==
    LET s == IF below THEN tooLow(s0) ELSE s0
    IN  [s |-> s,
         params |-> [params EXCEPT !.needToStopSearch =
                        @ \/ s.needToInterrupt
                          \/ s.numTooLow > numTooLowAgilitiesLimit
                          \/ params.conflictsDoneThisRestart > params.conflictsToDo]]

\* PolaritySorter::operator(): lit1 sorts before lit2
PolaritySorter(s, lit1, lit2) ==
    LET value1 == s.polarity[VarOf(lit1)] # SignOf(lit1)
        value2 == s.polarity[VarOf(lit2)] # SignOf(lit2)
    IN  value1 /\ ~value2

\* the rearrangements of cl that leave position 0 where it is
polarityOrders(cl) ==
    {[i \in 1..Len(cl) |-> IF i = 1 THEN cl[1] ELSE cl[p[i]]] :
        p \in {q \in [2..Len(cl) -> 2..Len(cl)] :
                  \A i, j \in 2..Len(cl) : q[i] = q[j] => i = j}}

\* std::sort(learnt_clause.begin()+1, learnt_clause.end(), PolaritySorter(varData)):
\* the results std::sort may leave.  The range is ordered by the comparison;
\* the order of the elements that the comparison does not tell apart is
\* unspecified
polaritySort(s, cl) ==
    {r \in polarityOrders(cl) :
        \A i, j \in 2..Len(r) : i < j => ~PolaritySorter(s, r[j], r[i])}

\* handle_conflict that gives up on a conflict at any decision level
handle_conflictGiveUp(s0, ctl, params0, confl) ==
    {[s |-> [s0 EXCEPT !.numConflicts = @ + 1], ctl |-> ctl,
      params |-> [params0 EXCEPT !.conflictsDoneThisRestart = @ + 1], ret |-> FALSE]}

\* the end of handle_conflict that treats every learnt clause as a unit
handle_conflictAttachUnit(sy, nc, learnt, backtrack_level, params) ==
    [s |-> enqueue([sy EXCEPT !.lastSumConfl = nc.ctl.sumConflicts, !.lastUnit = @ + 1],
                   learnt[1], PropByNull),
     ctl |-> nc.ctl, params |-> params, ret |-> TRUE]

\* "Attach new clause": the end of handle_conflict.  sy is the worker after
\* the critical section, nc what newClauseByThread has returned
handle_conflictAttach(sy, nc, learnt, backtrack_level, params) ==
    LET sp    == [sy EXCEPT !.lastSumConfl = nc.ctl.sumConflicts]
        alloc == nc.ctl.clAllocator
    IN  [s |-> CASE Len(learnt) = 1 ->
                      IF backtrack_level = 0
                      THEN enqueue([sp EXCEPT !.lastUnit = @ + 1], learnt[1], PropByNull)
                      ELSE Fail(enqueue([sp EXCEPT !.lastUnit = @ + 1], learnt[1], PropByNull),
                                "handle_conflict: backtrack_level == 0")
                 [] Len(learnt) = 2 ->
                      enqueue(attachBinClause([sp EXCEPT !.lastBin = @ + 1],
                                              learnt[1], learnt[2], TRUE),
                              learnt[1], PropByBin(learnt[2]))
                 [] Len(learnt) = 3 ->
                      enqueue(attachClause([sp EXCEPT !.lastLong = @ + 1],
                                           alloc, nc.offset, 0, 1),
                              learnt[1], PropByTri(learnt[2], learnt[3]))
                 [] OTHER ->
                      enqueue(attachClause([sp EXCEPT !.lastLong = @ + 1],
                                           alloc, nc.offset, 0, 1),
                              learnt[1], PropByClause(nc.offset, 0)),
         ctl |-> nc.ctl, params |-> params, ret |-> TRUE]

\* handle_conflict that appends its clause without the drain of the logs
handle_conflictBackNoSync(c0, an, ctl, params) ==
    {handle_conflictAttach(c0, newClauseByThread(ctl, an.out_learnt),
                           an.out_learnt, an.out_btlevel, params)}

\* handle_conflict after its cancelUntil(backtrack_level), which has left c0:
\* the assert, the sort and the critical section; one result for each result
\* of the sort
handle_conflictBack(c0, an, ctl, params) ==
    LET c == IF value(c0, an.out_learnt[1]) = "U" THEN c0
             ELSE Fail(c0, "handle_conflict: value(learnt_clause[0]) == l_Undef")
    IN  \* #pragma omp critical: syncFromThreadControl, newClauseByThread
        {handle_conflictAttach(syncFromThreadControl(c, ctl), newClauseByThread(ctl, learnt),
                               learnt, an.out_btlevel, params) :
            learnt \in polaritySort(c0, an.out_learnt)}

\* handle_conflict after analyze, which has returned an
handle_conflictLearnt(an, ctl, params) ==
    IF an.s.failed # "" THEN {[s |-> an.s, ctl |-> ctl, params |-> params, ret |-> TRUE]}
    ELSE handle_conflictBack(cancelUntil(IF params.update
                                         THEN [an.s EXCEPT !.glueHistory = Append(@, an.glue)]
                                         ELSE an.s,
                                         an.out_btlevel),
                             an, ctl, params)

\* CommandControl::handle_conflict: the set of possible results
\* [s, ctl, params, ret]
handle_conflict(s0, ctl, params0, confl) ==
    LET s      == [s0 EXCEPT !.numConflicts = @ + 1]
        params == [params0 EXCEPT !.conflictsDoneThisRestart = @ + 1]
    IN  IF decisionLevel(s) = 0 THEN {[s |-> s, ctl |-> ctl, params |-> params, ret |-> FALSE]}
        ELSE handle_conflictLearnt(analyze(s, ctl.clAllocator, confl), ctl, params)


-----------------------------------------------------------------------------
(* Clean-up by the coordinator *)

\* seq without its first element that satisfies Test
RECURSIVE removeWatch(_, _, _, _)
removeWatch(ws, type, a, b) ==
    IF ws = <<>> THEN <<>>
    ELSE IF /\ ws[1].type = type
            /\ \/ type = "clause" /\ ws[1].a = a
               \/ type = "tri" /\ {ws[1].a, ws[1].b} = {a, b}
    THEN Tail(ws)
    ELSE <<ws[1]>> \o removeWatch(Tail(ws), type, a, b)

\* Solver::detachClause; a clause this worker never attached has no watch to remove
detachClause(s, alloc, offset) ==
    LET cl == alloc[offset]
        rm(t, p, type, a, b) == [t EXCEPT !.watches[p] = removeWatch(@, type, a, b)]
    IN  IF Len(cl) = 3
        THEN rm(rm(rm(s, Neg(cl[1]), "tri", cl[2], cl[3]),
                         Neg(cl[2]), "tri", cl[1], cl[3]),
                         Neg(cl[3]), "tri", cl[1], cl[2])
        ELSE IF offset \notin DOMAIN s.litPos THEN s
        ELSE LET lp == s.litPos[offset]
                 t  == rm(rm(s, Neg(At(cl, lp[1])), "clause", offset, 0),
                                Neg(At(cl, lp[2])), "clause", offset, 0)
             IN  [t EXCEPT !.litPos = [o \in (DOMAIN @) \ {offset} |-> @[o]]]

RECURSIVE detachAll(_, _, _, _)
detachAll(s, alloc, toDetach, i) ==
    IF i > Len(toDetach) THEN s
    ELSE detachAll(detachClause(s, alloc, toDetach[i]), alloc, toDetach, i + 1)

\* ThreadControl::waitAllThreads: the coordinator's clean-up.  The learned
\* clauses of the logs are moved to the coordinator's own lists, the logs
\* are emptied, the reduction schedules learned long clauses for detaching
\* (which ones is the reduction heuristic's choice: reduce) and the next
\* clean-up limit is set
waitAllThreads(ctl, reduce) ==
    LET all == ctl.learnts \o ctl.longLearntsToAdd
    IN  [ctl EXCEPT !.learnts = IF reduce THEN <<>> ELSE all,
                    !.toDetach = IF reduce THEN all ELSE <<>>,
                    !.unitLearntsToAdd = <<>>,
                    !.binLearntsToAdd = <<>>,
                    !.longLearntsToAdd = <<>>,
                    !.from = [unit |-> <<>>, bin |-> <<>>, long |-> <<>>],
                    !.nextCleanLimit = @ + input.cleanInterval]

\* ThreadControl::toDetachFree
toDetachFree(ctl) == [ctl EXCEPT !.toDetach = <<>>]

-----------------------------------------------------------------------------
(* Construction and initialisation of a worker *)

EmptyFcn == [x \in {} |-> 0]

\* CommandControl::CommandControl
NewCommandControl ==
    [assigns |-> EmptyFcn, level |-> EmptyFcn, reason |-> EmptyFcn, polarity |-> EmptyFcn,
     seen |-> EmptyFcn, watches |-> EmptyFcn, litPos |-> EmptyFcn,
     trail |-> <<>>, trail_lim |-> <<>>, qhead |-> 0,
     order_heap |-> {}, activity |-> EmptyFcn, failBinLit |-> lit_Undef,
     got |-> [unit |-> {}, bin |-> {}, long |-> {}], gotFrom |-> {},
     assumptions |-> <<>>, conflict |-> <<>>, solution |-> EmptyFcn, ok |-> TRUE,
     needToInterrupt |-> FALSE,
     unitToAdd |-> <<>>, binToAdd |-> <<>>, longToAdd |-> <<>>,
     lastSumConfl |-> 0, lastLong |-> 0, lastBin |-> 0, lastUnit |-> 0,
     numConflicts |-> 0, numRestarts |-> 0, decisions |-> 0, rnd_decisions |-> 0,
     furtherClMinim |-> 0, glueHistory |-> <<>>, numTooLow |-> 0,
     failed |-> ""]

RECURSIVE enqueueAll(_, _, _)
enqueueAll(s, lits, i) ==
    IF i > Len(lits) THEN s ELSE enqueueAll(enqueue(s, lits[i], PropByNull), lits, i + 1)

RECURSIVE attachBins(_, _, _)
attachBins(s, bins, i) ==
    IF i > Len(bins) THEN s
    ELSE attachBins(attachBinClause(s, bins[i][1], bins[i][2], FALSE), bins, i + 1)

RECURSIVE attachClauses(_, _, _, _)
attachClauses(s, alloc, offsets, i) ==
    IF i > Len(offsets) THEN s
    ELSE attachClauses(attachClause(s, alloc, offsets[i], 0, 1), alloc, offsets, i + 1)

\* initialiseSolver after "ok = propagate().isNULL()", pr being what
\* propagate has returned: the assert and the clauses of the coordinator
initialiseSolverAttach(pr, ctl) ==
    LET ok == pr.confl.type = "null_clause_t"
        fl == [(IF ok THEN pr.s ELSE Fail(pr.s, "initialiseSolver: ok")) EXCEPT
                  !.ok = ok,
                  !.order_heap = {x \in @ : pr.s.assigns[x] = "U" /\ input.decision_var[x]}]
    IN  attachClauses(attachClauses(attachBins(fl, input.bins, 1),
                          ctl.clAllocator, ctl.clauses, 1),
                      ctl.clAllocator, ctl.learnts, 1)

\* initialiseSolver after its syncFromThreadControl, which has left sy0.
\* addOtherClauses runs before newVar has made any variable, so with a
\* non-empty inbox its reads of assigns[] and varData[] are out of bounds:
\* the process crashes (crash), or the reads yield "True at level 0" and the
\* inbox is emptied with no effect.
initialiseSolverSynced(sy0, ctl, crash) ==
    IF (sy0.unitToAdd # <<>> \/ sy0.binToAdd # <<>> \/ sy0.longToAdd # <<>>) /\ crash
    THEN Fail(sy0, "initialiseSolver: addOtherClauses before newVar")
    ELSE
    LET n  == input.nVars
        \* newVar for every variable of the coordinator
        nv == [sy0 EXCEPT !.unitToAdd = <<>>, !.binToAdd = <<>>, !.longToAdd = <<>>,
                          !.assigns = [x \in Vars(n) |-> "U"],
                          !.level = [x \in Vars(n) |-> 0],
                          !.reason = [x \in Vars(n) |-> PropByNull],
                          !.polarity = input.polarity,
                          !.seen = [l \in Lits(n) |-> 0],
                          !.watches = [l \in Lits(n) |-> <<>>],
                          !.order_heap = {x \in Vars(n) : input.decision_var[x]}]
    IN  \* Set already set vars
        initialiseSolverAttach(propagate(enqueueAll(nv, input.trail, 1), ctl.clAllocator), ctl)

\* CommandControl::initialiseSolver
initialiseSolver(s0, ctl, crash) ==
    initialiseSolverSynced(
        syncFromThreadControl([s0 EXCEPT !.conflict = <<>>, !.numRestarts = 0], ctl),
        ctl, crash)


-----------------------------------------------------------------------------
(* The inputs: formulas as the coordinator holds them *)

\* the literal x and the literal ~x of variable x
Pos(x) == 2 * x

Not(x) == 2 * x + 1

NoReach(n) == [l \in Lits(n) |-> lit_Undef]

NoCache(n) == [l \in Lits(n) |-> <<>>]

SameActivity(n) == [x \in Vars(n) |-> 0]

\* activities that make the heap hand out the variables in the order 0, 1, ...
ByIndex(n) == [x \in Vars(n) |-> n - x]

AllTrue(n) == [x \in Vars(n) |-> TRUE]

\* {(a | b), (a | ~b), (~a | c), (~a | ~c)}: unsatisfiable
FormulaBin ==
    [nVars |-> 3, decision_var |-> AllTrue(3), trail |-> <<>>,
     bins |-> << <<Pos(0), Pos(1)>>, <<Pos(0), Not(1)>>, <<Not(0), Pos(2)>>, <<Not(0), Not(2)>> >>,
     longs |-> <<>>,
     litReachable |-> NoReach(3), implCache |-> NoCache(3)]

\* {(a | b | c), (a | b | ~c), (a | ~b | c), (a | ~b | ~c)}: entails a
FormulaTri ==
    [nVars |-> 3, decision_var |-> AllTrue(3), trail |-> <<>>,
     bins |-> <<>>,
     longs |-> << <<Pos(0), Pos(1), Pos(2)>>, <<Pos(0), Pos(1), Not(2)>>,
                  <<Pos(0), Not(1), Pos(2)>>, <<Pos(0), Not(1), Not(2)>> >>,
     litReachable |-> NoReach(3), implCache |-> NoCache(3)]

\* {(~x | ~y), (z)} over x, y, w, z: the unit fact z is on the coordinator's
\* trail, and z is no decision variable
FormulaAssump ==
    [nVars |-> 4, decision_var |-> [x \in Vars(4) |-> x # 3], trail |-> <<Pos(3)>>,
     bins |-> << <<Not(0), Not(1)>> >>,
     longs |-> <<>>,
     litReachable |-> NoReach(4), implCache |-> NoCache(4)]

\* {(~a | c), (~a | ~c), (~b | c), (~b | ~c)}: entails ~a and ~b
FormulaTwo ==
    [nVars |-> 3, decision_var |-> AllTrue(3), trail |-> <<>>,
     bins |-> << <<Not(0), Pos(2)>>, <<Not(0), Not(2)>>, <<Not(1), Pos(2)>>, <<Not(1), Not(2)>> >>,
     longs |-> <<>>,
     litReachable |-> NoReach(3), implCache |-> NoCache(3)]

\* {(x | d), (x | ~d), (~x | u), (~u | c), (~u | ~c)}: unsatisfiable
FormulaCross ==
    [nVars |-> 4, decision_var |-> AllTrue(4), trail |-> <<>>,
     bins |-> << <<Pos(0), Pos(3)>>, <<Pos(0), Not(3)>>, <<Not(0), Pos(1)>>,
                 <<Not(1), Pos(2)>>, <<Not(1), Not(2)>> >>,
     longs |-> <<>>,
     litReachable |-> NoReach(4), implCache |-> NoCache(4)]

\* {(~a | ~b | ~c | d), (~a | ~b | ~c | ~d)}: satisfiable, a, b, c not all true
FormulaLong ==
    [nVars |-> 4, decision_var |-> AllTrue(4), trail |-> <<>>,
     bins |-> <<>>,
     longs |-> << <<Not(0), Not(1), Not(2), Pos(3)>>, <<Not(0), Not(1), Not(2), Not(3)>> >>,
     litReachable |-> NoReach(4), implCache |-> NoCache(4)]

\* {(~a | ~b | ~c | d)}: under the assumptions a, b, c the clause propagates
\* d, the literal of its position 3
FormulaFinal ==
    [nVars |-> 4, decision_var |-> AllTrue(4), trail |-> <<>>,
     bins |-> <<>>,
     longs |-> << <<Not(0), Not(1), Not(2), Pos(3)>> >>,
     litReachable |-> NoReach(4), implCache |-> NoCache(4)]

\* {(~a | ~b | c)} over a, b, c, u: under the assumptions a, u, b the clause
\* propagates c from the levels 1 and 3, and u of level 2 has no part in it
FormulaGap ==
    [nVars |-> 4, decision_var |-> AllTrue(4), trail |-> <<>>,
     bins |-> <<>>,
     longs |-> << <<Not(0), Not(1), Pos(2)>> >>,
     litReachable |-> NoReach(4), implCache |-> NoCache(4)]

\* the clauses of FormulaTri with (a | d | e), (a | d | ~e): entails a, and
\* no single decision refutes ~a
FormulaShare ==
    [nVars |-> 5, decision_var |-> AllTrue(5), trail |-> <<>>,
     bins |-> <<>>,
     longs |-> << <<Pos(0), Pos(1), Pos(2)>>, <<Pos(0), Pos(1), Not(2)>>,
                  <<Pos(0), Not(1), Pos(2)>>, <<Pos(0), Not(1), Not(2)>>,
                  <<Pos(0), Pos(3), Pos(4)>>, <<Pos(0), Pos(3), Not(4)>> >>,
     litReachable |-> NoReach(5), implCache |-> NoCache(5)]

\* {(~a | ~b | ~c | ~d | e), (~a | ~b | ~c | ~d | ~e), (~p | ~q | r), (~p | ~q | ~r)}:
\* a, b, c, d not all true and p, q not both true; each conflict learns a
\* clause that the other half of the formula does not propagate
FormulaDeep ==
    [nVars |-> 8, decision_var |-> AllTrue(8), trail |-> <<>>,
     bins |-> <<>>,
     longs |-> << <<Not(0), Not(1), Not(2), Not(3), Pos(4)>>,
                  <<Not(0), Not(1), Not(2), Not(3), Not(4)>>,
                  <<Not(5), Not(6), Pos(7)>>, <<Not(5), Not(6), Not(7)>> >>,
     litReachable |-> NoReach(8), implCache |-> NoCache(8)]

\* {(x | y | c), (x | y | ~c), (~d | x), (~d | ~f | g), (~d | ~f | ~g),
\*  (y | ~h | k), (y | ~h | ~k)} over y, x, c, d, f, g, h, k: satisfiable;
\* entails (x | y), (~f | ~d) and (~h | y)
FormulaLate ==
    [nVars |-> 8, decision_var |-> AllTrue(8), trail |-> <<>>,
     bins |-> << <<Not(3), Pos(1)>> >>,
     longs |-> << <<Pos(1), Pos(0), Pos(2)>>, <<Pos(1), Pos(0), Not(2)>>,
                  <<Not(3), Not(4), Pos(5)>>, <<Not(3), Not(4), Not(5)>>,
                  <<Pos(0), Not(6), Pos(7)>>, <<Pos(0), Not(6), Not(7)>> >>,
     litReachable |-> NoReach(8), implCache |-> NoCache(8)]

\* {(a | x), (a | ~x), (~q | y), (~q | ~y), (~a | s), (~a | ~s | p), (q | ~r),
\*  (q | ~p | r)} over a, x, q, y, s, p, r: unsatisfiable; entails a and ~q;
\* a propagates s and p, ~q propagates ~r and ~p, and neither propagation
\* reaches the other's fact
FormulaClash ==
    [nVars |-> 7, decision_var |-> AllTrue(7), trail |-> <<>>,
     bins |-> << <<Pos(0), Pos(1)>>, <<Pos(0), Not(1)>>, <<Not(2), Pos(3)>>, <<Not(2), Not(3)>>,
                 <<Not(0), Pos(4)>>, <<Pos(2), Not(6)>> >>,
     longs |-> << <<Not(0), Not(4), Pos(5)>>, <<Pos(2), Not(5), Pos(6)>> >>,
     litReachable |-> NoReach(7), implCache |-> NoCache(7)]

\* the clauses of FormulaTwo with (a | d): entails ~a, ~b and d, and ~a
\* propagates d
FormulaSkip ==
    [nVars |-> 4, decision_var |-> AllTrue(4), trail |-> <<>>,
     bins |-> << <<Not(0), Pos(2)>>, <<Not(0), Not(2)>>, <<Not(1), Pos(2)>>, <<Not(1), Not(2)>>,
                 <<Pos(0), Pos(3)>> >>,
     longs |-> <<>>,
     litReachable |-> NoReach(4), implCache |-> NoCache(4)]

\* {(~z | ~u), (~b | a), (u | ~a | p), (u | ~a | ~p), (~u | ~b | r), (~u | ~b | ~r)}
\* over a, b, u, z, p, r: satisfiable; entails (u | ~a) and (~u | ~b), each
\* learnt by the worker that decides z, respectively u, after a, respectively b
FormulaBoth ==
    [nVars |-> 6, decision_var |-> AllTrue(6), trail |-> <<>>,
     bins |-> << <<Not(3), Not(2)>>, <<Not(1), Pos(0)>> >>,
     longs |-> << <<Pos(2), Not(0), Pos(4)>>, <<Pos(2), Not(0), Not(4)>>,
                  <<Not(2), Not(1), Pos(5)>>, <<Not(2), Not(1), Not(5)>> >>,
     litReachable |-> NoReach(6), implCache |-> NoCache(6)]

\* {(a | x), (a | ~x), (~u | y), (~u | ~y), (~w | a), (~z | ~u), (u | ~a | p),
\*  (u | ~a | ~p)} over a, x, u, y, w, z, p: unsatisfiable; entails a and ~u,
\* and (u | ~a), which the worker that decides w and z learns
FormulaZero ==
    [nVars |-> 7, decision_var |-> AllTrue(7), trail |-> <<>>,
     bins |-> << <<Pos(0), Pos(1)>>, <<Pos(0), Not(1)>>, <<Not(2), Pos(3)>>, <<Not(2), Not(3)>>,
                 <<Not(4), Pos(0)>>, <<Not(5), Not(2)>> >>,
     longs |-> << <<Pos(2), Not(0), Pos(6)>>, <<Pos(2), Not(0), Not(6)>> >>,
     litReachable |-> NoReach(7), implCache |-> NoCache(7)]

\* {(~z | ~u), (~b | c), (~g | h), (~g | ~h), (u | ~a | ~c | p), (u | ~a | ~c | ~p),
\*  (~u | ~b | r), (~u | ~b | ~r)} over a, b, u, z, p, r, c, g, h: satisfiable;
\* entails (u | ~a | ~c), learnt by the worker that decides a, c and z, and
\* (~u | ~b) and ~g, learnt by its peer
FormulaBothLong ==
    [nVars |-> 9, decision_var |-> AllTrue(9), trail |-> <<>>,
     bins |-> << <<Not(3), Not(2)>>, <<Not(1), Pos(6)>>, <<Not(7), Pos(8)>>, <<Not(7), Not(8)>> >>,
     longs |-> << <<Pos(2), Not(0), Not(6), Pos(4)>>, <<Pos(2), Not(0), Not(6), Not(4)>>,
                  <<Not(2), Not(1), Pos(5)>>, <<Not(2), Not(1), Not(5)>> >>,
     litReachable |-> NoReach(9), implCache |-> NoCache(9)]

\* {(a | x), (a | ~x), (~u | y), (~u | ~y), (~w | a), (~z | ~u), (~a | m), (~m | c),
\*  (u | ~a | ~c | p), (u | ~a | ~c | ~p)} over a, x, u, y, w, z, p, m, c:
\* unsatisfiable; entails a, which propagates m and c, and ~u, and
\* (u | ~a | ~c), which the worker that decides w and z learns
FormulaZeroLong ==
    [nVars |-> 9, decision_var |-> AllTrue(9), trail |-> <<>>,
     bins |-> << <<Pos(0), Pos(1)>>, <<Pos(0), Not(1)>>, <<Not(2), Pos(3)>>, <<Not(2), Not(3)>>,
                 <<Not(4), Pos(0)>>, <<Not(5), Not(2)>>, <<Not(0), Pos(7)>>, <<Not(7), Pos(8)>> >>,
     longs |-> << <<Pos(2), Not(0), Not(8), Pos(6)>>, <<Pos(2), Not(0), Not(8), Not(6)>> >>,
     litReachable |-> NoReach(9), implCache |-> NoCache(9)]

\* {(~u | c1), (~d | a), (~a | k | c2), (~a | ~k | c2), (~u | ~a | c3),
\*  (~u | ~a | ~c1 | ~c2 | ~c3 | p), (~u | ~a | ~c1 | ~c2 | ~c3 | ~p)} over a, c1,
\* c2, c3, u, p, k, d: satisfiable; entails (~u | ~a).  The cache knows that
\* a implies c2; d dominates a and u dominates c1.
FormulaDom ==
    [nVars |-> 8, decision_var |-> AllTrue(8), trail |-> <<>>,
     bins |-> << <<Not(4), Pos(1)>>, <<Not(7), Pos(0)>> >>,
     longs |-> << <<Not(0), Pos(6), Pos(2)>>, <<Not(0), Not(6), Pos(2)>>,
                  <<Not(4), Not(0), Pos(3)>>,
                  <<Not(4), Not(0), Not(1), Not(2), Not(3), Pos(5)>>,
                  <<Not(4), Not(0), Not(1), Not(2), Not(3), Not(5)>> >>,
     litReachable |-> (Pos(0) :> Pos(7)) @@ (Pos(1) :> Pos(4)) @@ NoReach(8),
     implCache |-> (Not(0) :> <<Pos(2)>>) @@ NoCache(8)]

\* what a clean-up adds to getNextCleanLimit()
CleanInterval == 2

\* one run: the formula, the arguments of solve() and the configuration
Run(f, assumps, maxConfls, numThreads, polarity, activity, cleanLimit, dynamicRestart, random) ==
    [nVars |-> f.nVars, decision_var |-> f.decision_var, trail |-> f.trail,
     bins |-> f.bins, longs |-> f.longs,
     litReachable |-> f.litReachable, implCache |-> f.implCache,
     polarity |-> polarity, activity |-> activity,
     assumps |-> assumps, maxConfls |-> maxConfls, numThreads |-> numThreads,
     nextCleanLimit |-> cleanLimit, cleanInterval |-> CleanInterval,
     doCache |-> TRUE, agilityRestarts |-> dynamicRestart, random_var_freq |-> random]

Both(activity) == [w \in Workers |-> activity]

AllFalse(n) == [x \in Vars(n) |-> FALSE]

\* activities that make the heap hand out the variables in the order given
InOrder(order) == [x \in Range(order) |-> CHOOSE i \in 1..Len(order) : order[Len(order) + 1 - i] = x]

Inputs ==
    {Run(FormulaBin, <<>>, m, 2, AllTrue(3), Both(ByIndex(3)), 1, FALSE, FALSE) :
        m \in 1..MaxConflsBound}
    \cup
    {Run(FormulaTwo, <<>>, MaxConflsBound, 2, AllTrue(3),
         (1 :> InOrder(<<0, 1, 2>>)) @@ (2 :> InOrder(<<1, 0, 2>>)), 0, FALSE, FALSE)}
    \cup
    {Run(FormulaCross, <<>>, MaxConflsBound, 2, (0 :> FALSE) @@ AllTrue(4),
         (1 :> InOrder(<<0, 1, 2, 3>>)) @@ (2 :> InOrder(<<1, 0, 2, 3>>)), 1, FALSE, FALSE)}
    \cup
    {Run(FormulaLong, <<>>, MaxConflsBound, 2, AllTrue(4),
         (1 :> InOrder(<<0, 1, 2, 3>>)) @@ (2 :> InOrder(<<2, 1, 0, 3>>)), 1, FALSE, FALSE)}
    \cup
    {Run(FormulaTri, <<>>, MaxConflsBound, 2, AllFalse(3),
         (1 :> InOrder(<<0, 1, 2>>)) @@ (2 :> InOrder(<<2, 1, 0>>)), 2, FALSE, FALSE)}
    \cup
    {Run(FormulaShare, <<>>, MaxConflsBound, 2, AllFalse(5),
         (1 :> InOrder(<<0, 1, 2, 3, 4>>)) @@ (2 :> InOrder(<<0, 3, 4, 1, 2>>)),
         MaxConflsBound, FALSE, FALSE)}
    \cup
    {Run(FormulaDeep, <<>>, 2, 2, AllTrue(8),
         (1 :> InOrder(<<0, 1, 2, 3, 4, 5, 6, 7>>)) @@ (2 :> InOrder(<<0, 1, 3, 5, 6, 7, 2, 4>>)),
         1, FALSE, FALSE)}
    \cup
    {Run(FormulaLate, <<>>, MaxConflsBound, 2, (0 :> FALSE) @@ (1 :> FALSE) @@ AllTrue(8),
         (1 :> InOrder(<<0, 1, 2, 3, 4, 6, 5, 7>>)) @@ (2 :> InOrder(<<0, 3, 4, 6, 1, 2, 5, 7>>)),
         MaxConflsBound, FALSE, FALSE)}
    \cup
    {Run(FormulaClash, <<>>, MaxConflsBound + 4, 2, (0 :> FALSE) @@ AllTrue(7),
         (1 :> InOrder(<<0, 1, 2, 3, 4, 5, 6>>)) @@ (2 :> InOrder(<<2, 3, 0, 1, 4, 5, 6>>)),
         0, FALSE, FALSE)}
    \cup
    {Run(FormulaSkip, <<>>, MaxConflsBound + 4, 2, AllTrue(4),
         (1 :> InOrder(<<0, 1, 2, 3>>)) @@ (2 :> InOrder(<<1, 0, 2, 3>>)), 0, FALSE, FALSE)}
    \cup
    {Run(FormulaBoth, <<>>, MaxConflsBound, 2, AllTrue(6),
         (1 :> InOrder(<<0, 3, 1, 2, 4, 5>>)) @@ (2 :> InOrder(second)),
         MaxConflsBound, FALSE, FALSE) :
        second \in {<<0, 1, 2, 3, 4, 5>>, <<1, 0, 2, 3, 4, 5>>}}
    \cup
    {Run(FormulaZero, <<>>, MaxConflsBound + 4, 2, (0 :> FALSE) @@ AllTrue(7),
         (1 :> InOrder(<<4, 5, 0, 1, 2, 3, 6>>)) @@ (2 :> InOrder(<<0, 2, 1, 3, 4, 5, 6>>)),
         MaxConflsBound + 4, FALSE, FALSE)}
    \cup
    {Run(FormulaBothLong, <<>>, 2, 2, AllTrue(9),
         (1 :> InOrder(<<0, 6, 3, 1, 2, 4, 5, 7, 8>>)) @@ (2 :> InOrder(second)),
         1, FALSE, FALSE) :
        second \in {<<6, 0, 1, 2, 3, 4, 5, 7, 8>>, <<0, 1, 2, 3, 4, 5, 6, 7, 8>>,
                    <<1, 2, 0, 3, 4, 5, 6, 7, 8>>, <<7, 0, 1, 2, 3, 4, 5, 6, 8>>}}
    \cup
    {Run(FormulaZeroLong, <<>>, MaxConflsBound + 4, 2, (0 :> FALSE) @@ AllTrue(9),
         (1 :> InOrder(<<4, 5, 0, 1, 2, 3, 6, 7, 8>>)) @@ (2 :> InOrder(<<0, 2, 1, 3, 4, 5, 6, 7, 8>>)),
         MaxConflsBound + 4, FALSE, FALSE)}
    \cup
    {Run(FormulaClash, <<>>, 1, 1, AllFalse(7), Both(InOrder(<<0, 1, 2, 3, 4, 5, 6>>)),
         MaxConflsBound + 4, FALSE, FALSE)}
    \cup
    {Run(FormulaDom, <<>>, MaxConflsBound, 1, AllTrue(8),
         Both(InOrder(<<0, 1, 2, 3, 4, 5, 6, 7>>)), MaxConflsBound, FALSE, FALSE)}
    \cup
    {[Run(FormulaDom, <<>>, MaxConflsBound, 1, AllTrue(8),
          Both(InOrder(<<0, 1, 2, 3, 4, 5, 6, 7>>)), MaxConflsBound, FALSE, FALSE)
         EXCEPT !.doCache = FALSE]}
    \cup
    {Run(FormulaTri, a, MaxConflsBound, 1, [x \in Vars(3) |-> pol], Both(SameActivity(3)), 1, TRUE, TRUE) :
        a \in {<<>>, <<Not(0)>>, <<Pos(1)>>}, pol \in BOOLEAN}
    \cup
    {Run(FormulaAssump, a, MaxConflsBound, 1, AllTrue(4), Both(SameActivity(4)), 1, FALSE, TRUE) :
        a \in {<<Pos(0), Pos(2), Pos(1)>>, <<Pos(0), Pos(2)>>, <<Pos(3), Pos(0)>>}}
    \cup
    {Run(FormulaFinal, <<Pos(0), Pos(1), Pos(2), Not(3)>>, MaxConflsBound, 1, AllTrue(4),
         Both(InOrder(<<0, 1, 2, 3>>)), 1, FALSE, FALSE)}
    \cup
    {Run(FormulaGap, <<Pos(0), Pos(3), Pos(1), Not(2)>>, MaxConflsBound, 1, AllTrue(4),
         Both(InOrder(<<0, 1, 2, 3>>)), 1, FALSE, FALSE)}

-----------------------------------------------------------------------------
(* Simplifier.h: the clause set CSet and the subset test *)

\* the clause indices handed to the CSet are drawn from 0..MaxIndex
MaxIndex == 1

\* the clauses handed to subset have up to MaxSubsetLen literals
MaxSubsetLen == 2

\* CSet::nElems
nElems(cs) == Len(cs.which) - Len(cs.free)

\* CSet::add that takes the slot freed first
addFirstFree(cs, c) ==
    LET where == IF Len(cs.where) >= c.index + 1 THEN cs.where
                 ELSE cs.where \o [i \in 1..(c.index + 1 - Len(cs.where)) |-> -1]
    IN  IF At(where, c.index) # -1
        THEN [cs |-> [cs EXCEPT !.where = where,
                                !.which[At(where, c.index) + 1].abst = c.abst],
              ret |-> TRUE]
        ELSE IF Len(cs.free) > 0
        THEN [cs |-> [where |-> SetAt(where, c.index, cs.free[1]),
                      which |-> SetAt(cs.which, cs.free[1], c),
                      free  |-> SubSeq(cs.free, 2, Len(cs.free))],
              ret |-> FALSE]
        ELSE [cs |-> [where |-> SetAt(where, c.index, Len(cs.which)),
                      which |-> Append(cs.which, c),
                      free  |-> cs.free],
              ret |-> FALSE]

\* CSet::add: [cs, ret].  where is a vec<uint>; its pad -1 and the -1 of the
\* comparisons are the same value after conversion
add(cs, c) ==
    LET where == IF Len(cs.where) >= c.index + 1 THEN cs.where
                 ELSE cs.where \o [i \in 1..(c.index + 1 - Len(cs.where)) |-> -1]
    IN  IF At(where, c.index) # -1
        THEN \* already in, only update
             [cs |-> [cs EXCEPT !.where = where,
                                !.which[At(where, c.index) + 1].abst = c.abst],
              ret |-> TRUE]
        ELSE IF Len(cs.free) > 0
        THEN [cs |-> [where |-> SetAt(where, c.index, cs.free[Len(cs.free)]),
                      which |-> SetAt(cs.which, cs.free[Len(cs.free)], c),
                      free  |-> Prefix(cs.free, Len(cs.free) - 1)],
              ret |-> FALSE]
        ELSE [cs |-> [where |-> SetAt(where, c.index, Len(cs.which)),
                      which |-> Append(cs.which, c),
                      free  |-> cs.free],
              ret |-> FALSE]

\* CSet::exclude: [cs, ret].  Clause_NULL is the address 0
exclude(cs, c) ==
    IF c.index >= Len(cs.where) \/ At(cs.where, c.index) = -1
    THEN \* not inside
         [cs |-> cs, ret |-> FALSE]
    ELSE [cs |-> [free  |-> Append(cs.free, At(cs.where, c.index)),
                  which |-> [cs.which EXCEPT ![At(cs.where, c.index) + 1].clause = 0],
                  where |-> SetAt(cs.where, c.index, -1)],
          ret |-> TRUE]

\* CSet::clear that leaves where as it is
clearKeepWhere(cs) == [cs EXCEPT !.which = <<>>, !.free = <<>>]

\* CSet::clear
clear(cs) ==
    [where |-> [j \in DOMAIN cs.where |->
                   IF \E i \in DOMAIN cs.which :
                         cs.which[i].clause # 0 /\ cs.which[i].index = j - 1
                   THEN -1 ELSE cs.where[j]],
     which |-> <<>>,
     free  |-> <<>>]

\* CSet::update
update(cs, c) ==
    IF c.index >= Len(cs.where) \/ At(cs.where, c.index) = -1 THEN cs
    ELSE [cs EXCEPT !.which[At(cs.where, c.index) + 1].abst = c.abst]

\* Simplifier::subset that returns false without taking the marks back
subsetKeepMarks(A, B, seen) ==
    LET marked == [l \in DOMAIN seen |-> IF l \in Range(B) THEN TRUE ELSE seen[l]]
    IN  IF \A i \in 1..Len(A) : marked[A[i]]
        THEN [ret |-> TRUE,
              seen |-> [l \in DOMAIN seen |-> IF l \in Range(B) THEN FALSE ELSE marked[l]]]
        ELSE [ret |-> FALSE, seen |-> marked]

\* Simplifier::subset(A, B, seen): [ret, seen].  The literals of B are
\* marked, A is looked up, and the marks are taken back on either return
subset(A, B, seen) ==
    LET marked == [l \in DOMAIN seen |-> IF l \in Range(B) THEN TRUE ELSE seen[l]]
    IN  [ret  |-> \A i \in 1..Len(A) : marked[A[i]],
         seen |-> [l \in DOMAIN seen |-> IF l \in Range(B) THEN FALSE ELSE marked[l]]]

\* an empty CSet, seen cleared, nothing called yet
NewSimplifier ==
    [set  |-> [where |-> <<>>, which |-> <<>>, free |-> <<>>],
     seen |-> [l \in Lits(1) |-> FALSE],
     last |-> [op |-> "none"]]

-----------------------------------------------------------------------------
(* The state machine *)

NewFrame ==
    [status |-> "l_Undef", maxConfls |-> 0,
     params |-> [needToStopSearch |-> FALSE, conflictsDoneThisRestart |-> 0,
                 conflictsToDo |-> 0, update |-> TRUE],
     confl |-> PropByNull, ret |-> TRUE]

Init ==
    /\ input \in Inputs
    /\ control = [clAllocator |-> input.longs,
                  clauses |-> [i \in 1..Len(input.longs) |-> i],
                  learnts |-> <<>>, toDetach |-> <<>>,
                  from |-> [unit |-> <<>>, bin |-> <<>>, long |-> <<>>],
                  unitLearntsToAdd |-> <<>>, binLearntsToAdd |-> <<>>, longLearntsToAdd |-> <<>>,
                  sumConflicts |-> 0, nextCleanLimit |-> input.nextCleanLimit]
    /\ cc = [w \in Workers |-> NewCommandControl]
    /\ frame = [w \in Workers |-> NewFrame]
    /\ pc = [w \in Workers |-> "idle"]
    /\ simp = NewSimplifier

\* the threads of the parallel region
Team == {w \in Workers : w <= input.numThreads}

\* a failed assert() aborts the process
Aborted == \E w \in Workers : pc[w] = "abort"

\* where worker w goes on: to the abort if an assert() of the step failed
Goto(w, s, where) == pc' = [pc EXCEPT ![w] = IF s.failed # "" THEN "abort" ELSE where]

\* solve(): up to the while loop
Solve(w) ==
    /\ pc[w] = "idle" /\ w \in Team /\ ~Aborted
    /\ \E crash \in BOOLEAN :
       \E s \in {initialiseSolver(
                    [(IF cc[w].ok /\ cc[w].qhead = Len(cc[w].trail) THEN cc[w]
                      ELSE Fail(cc[w], "solve: precondition"))
                        EXCEPT !.assumptions = input.assumps,
                               !.activity = input.activity[w]],
                    control, crash)} :
             /\ cc' = [cc EXCEPT ![w] = s]
             /\ frame' = [frame EXCEPT ![w] = [NewFrame EXCEPT !.maxConfls = input.maxConfls]]
             /\ Goto(w, s, "solve_loop")
    /\ UNCHANGED <<input, control, simp>>

\* the test of the while loop of solve()
LoopCondition(w) ==
    /\ frame[w].status = "l_Undef"
    /\ ~cc[w].needToInterrupt
    /\ cc[w].lastSumConfl < frame[w].maxConfls

\* solve(): the loop goes round; search() up to its own loop
SearchStart(w) ==
    /\ pc[w] = "solve_loop" /\ ~Aborted
    /\ LoopCondition(w)
    /\ LET s0 == IF cc[w].numConflicts < frame[w].maxConfls THEN cc[w]
                 ELSE Fail(cc[w], "solve: numConflicts < maxConfls")
           s1 == IF s0.ok THEN s0 ELSE Fail(s0, "search: ok")
           s  == agilityReset([s1 EXCEPT !.numRestarts = @ + 1, !.glueHistory = <<>>])
       IN  /\ cc' = [cc EXCEPT ![w] = s]
           /\ frame' = [frame EXCEPT ![w].params =
                           [needToStopSearch |-> FALSE, conflictsDoneThisRestart |-> 0,
                            conflictsToDo |-> frame[w].maxConfls - cc[w].numConflicts,
                            update |-> TRUE]]
           /\ Goto(w, s, "propagate")
    /\ UNCHANGED <<input, control, simp>>

\* search(): propagate and the publication of the new level-0 literals
Propagate(w) ==
    /\ pc[w] = "propagate" /\ ~Aborted
    /\ \E oldTrailSize \in {Len(cc[w].trail)}, pr \in {propagate(cc[w], control.clAllocator)} :
       \E ad \in {IF decisionLevel(pr.s) = 0 /\ Len(pr.s.trail) > oldTrailSize
                  THEN addToThreads(pr.s, control, oldTrailSize)
                  ELSE [s |-> pr.s, ctl |-> control]} :
           /\ cc' = [cc EXCEPT ![w] = ad.s]
           /\ control' = stamp(ad.ctl, w)
           /\ frame' = [frame EXCEPT ![w].confl = pr.confl]
           /\ Goto(w, ad.s, IF pr.confl.type # "null_clause_t" THEN "conflict" ELSE "quiescent")
    /\ UNCHANGED <<input, simp>>

\* search(): the conflict branch up to handle_conflict's return
HandleConflict(w) ==
    /\ pc[w] = "conflict" /\ ~Aborted
    /\ \E below \in {FALSE, input.agilityRestarts} :
       \E cr \in {checkNeedRestart(cc[w], frame[w].params, below)} :
       \E h \in handle_conflict(cr.s, control, cr.params, frame[w].confl) :
             /\ cc' = [cc EXCEPT ![w] = h.s]
             /\ control' = stamp(h.ctl, w)
             /\ frame' = [frame EXCEPT ![w].params = h.params,
                                       ![w].status = IF h.ret THEN @ ELSE "l_False"]
             /\ Goto(w, h.s, IF h.ret THEN "import" ELSE "after_search")
    /\ UNCHANGED <<input, simp>>

\* search(): addOtherClauses after a conflict
AddOtherClauses(w) ==
    /\ pc[w] = "import" /\ ~Aborted
    /\ \E r \in {addOtherClauses(cc[w], control.clAllocator)} :
           /\ cc' = [cc EXCEPT ![w] = r.s]
           /\ frame' = [frame EXCEPT ![w].status = IF r.ret THEN @ ELSE "l_False"]
           /\ Goto(w, r.s, IF r.ret THEN "propagate" ELSE "after_search")
    /\ UNCHANGED <<input, control, simp>>

\* the test without params.needToStopSearch
NeedToStopForCleaning(w) == cc[w].lastSumConfl > control.nextCleanLimit

\* the test "restart here" of search()
NeedToStop(w) ==
    \/ frame[w].params.needToStopSearch
    \/ cc[w].lastSumConfl > control.nextCleanLimit

\* search(): cancelUntil(0); return l_Undef
StopSearch(w) ==
    /\ pc[w] = "quiescent" /\ ~Aborted
    /\ NeedToStop(w)
    /\ \E s \in {cancelUntil(IF cc[w].ok THEN cc[w] ELSE Fail(cc[w], "search: ok"), 0)} :
           /\ cc' = [cc EXCEPT ![w] = s]
           /\ frame' = [frame EXCEPT ![w].status = "l_Undef"]
           /\ Goto(w, s, "after_search")
    /\ UNCHANGED <<input, control, simp>>

\* search(): new_decision
NewDecision(w) ==
    /\ pc[w] = "quiescent" /\ ~Aborted
    /\ ~NeedToStop(w)
    /\ \E r \in new_decision(cc[w], control.clAllocator) :
           /\ cc' = [cc EXCEPT ![w] = r.s]
           /\ frame' = [frame EXCEPT ![w].status = r.ret]
           /\ Goto(w, r.s, IF r.ret = "l_Undef" THEN "propagate" ELSE "after_search")
    /\ UNCHANGED <<input, control, simp>>

\* solve(): after search() has returned
AfterSearch(w) ==
    /\ pc[w] = "after_search" /\ ~Aborted
    /\ pc' = [pc EXCEPT ![w] =
                 IF cc[w].lastSumConfl >= frame[w].maxConfls THEN "solve_end"
                 ELSE IF cc[w].lastSumConfl > control.nextCleanLimit THEN "barrier1"
                 ELSE "solve_loop"]
    /\ UNCHANGED <<input, control, cc, frame, simp>>

\* #pragma omp barrier: every thread of the team has arrived
Barrier(from, to) ==
    /\ ~Aborted
    /\ \A w \in Team : pc[w] = from
    /\ pc' = [w \in Workers |-> IF w \in Team THEN to ELSE pc[w]]

Barrier1 ==
    /\ Barrier("barrier1", "sync")
    /\ UNCHANGED <<input, control, cc, frame, simp>>

BarrierSync(w) ==
    /\ pc[w] = "sync" /\ ~Aborted
    /\ cc' = [cc EXCEPT ![w] = syncFromThreadControl(cc[w], control)]
    /\ pc' = [pc EXCEPT ![w] = "barrier2"]
    /\ UNCHANGED <<input, control, frame, simp>>

Barrier2 ==
    /\ Barrier("barrier2", "barrier_import")
    /\ UNCHANGED <<input, control, cc, frame, simp>>

\* bool ret = addOtherClauses(); assert(ret)
BarrierImport(w) ==
    /\ pc[w] = "barrier_import" /\ ~Aborted
    /\ \E r \in {addOtherClauses(cc[w], control.clAllocator)} :
       \E s \in {IF r.ret THEN r.s
                 ELSE Fail(r.s, "solve: ret, TODO: must handle this correctly!")} :
           /\ cc' = [cc EXCEPT ![w] = s]
           /\ frame' = [frame EXCEPT ![w].ret = r.ret]
           /\ Goto(w, s, "barrier3")
    /\ UNCHANGED <<input, control, simp>>

\* barrier; single: control->waitAllThreads()
WaitAllThreads ==
    /\ Barrier("barrier3", "detach")
    /\ \E reduce \in BOOLEAN : control' = waitAllThreads(control, reduce)
    /\ UNCHANGED <<input, cc, frame, simp>>

\* the scheduled clauses are detached, the cursors reset
Detach(w) ==
    /\ pc[w] = "detach" /\ ~Aborted
    /\ cc' = [cc EXCEPT ![w] =
                 [detachAll(cc[w], control.clAllocator, control.toDetach, 1) EXCEPT
                     !.lastLong = 0, !.lastBin = 0, !.lastUnit = 0,
                     !.got = [unit |-> {}, bin |-> {}, long |-> {}]]]
    /\ pc' = [pc EXCEPT ![w] = "barrier4"]
    /\ UNCHANGED <<input, control, frame, simp>>

\* barrier; single: control->toDetachFree(); barrier; the end of the loop body
ToDetachFree ==
    /\ Barrier("barrier4", "solve_loop")
    /\ control' = toDetachFree(control)
    /\ frame' = [w \in Workers |->
                    IF frame[w].ret THEN frame[w] ELSE [frame[w] EXCEPT !.status = "l_False"]]
    /\ UNCHANGED <<input, cc, simp>>

\* solve(): after the loop
SolveReturn(w) ==
    /\ \/ pc[w] = "solve_end"
       \/ pc[w] = "solve_loop" /\ ~LoopCondition(w)
    /\ ~Aborted
    /\ \E s \in {cancelUntil(
                    IF frame[w].status = "l_True" THEN [cc[w] EXCEPT !.solution = cc[w].assigns]
                    ELSE IF frame[w].status = "l_False" /\ Len(cc[w].conflict) = 0
                    THEN [cc[w] EXCEPT !.ok = FALSE]
                    ELSE cc[w],
                    0)} :
           /\ cc' = [cc EXCEPT ![w] = s]
           /\ Goto(w, s, "done")
    /\ UNCHANGED <<input, control, frame, simp>>

\* CommandControl::setNeedToInterrupt, called from outside the worker.  The
\* worker reads the flag in checkNeedRestart and in the loop test of solve(),
\* so a call at any other moment is the same as a call just before the read.
SetNeedToInterrupt(w) ==
    /\ pc[w] \in {"conflict", "solve_loop"} /\ ~Aborted
    /\ ~cc[w].needToInterrupt
    /\ cc' = [cc EXCEPT ![w].needToInterrupt = TRUE]
    /\ UNCHANGED <<input, control, frame, pc, simp>>

Next ==
    \/ \E w \in Workers :
          \/ Solve(w)
          \/ SearchStart(w)
          \/ Propagate(w)
          \/ HandleConflict(w)
          \/ AddOtherClauses(w)
          \/ StopSearch(w)
          \/ NewDecision(w)
          \/ AfterSearch(w)
          \/ BarrierSync(w)
          \/ BarrierImport(w)
          \/ Detach(w)
          \/ SolveReturn(w)
          \/ SetNeedToInterrupt(w)
    \/ Barrier1
    \/ Barrier2
    \/ WaitAllThreads
    \/ ToDetachFree

Spec == Init /\ [][Next]_vars

\* the steps that thread w of the team takes by itself
WorkerStep(w) ==
    \/ Solve(w)
    \/ SearchStart(w)
    \/ Propagate(w)
    \/ HandleConflict(w)
    \/ AddOtherClauses(w)
    \/ StopSearch(w)
    \/ NewDecision(w)
    \/ AfterSearch(w)
    \/ BarrierSync(w)
    \/ BarrierImport(w)
    \/ Detach(w)
    \/ SolveReturn(w)

\* the values of pc
PcValues ==
    {"idle", "solve_loop", "propagate", "conflict", "import", "quiescent", "after_search",
     "solve_end", "barrier1", "sync", "barrier2", "barrier_import", "barrier3", "detach",
     "barrier4", "done", "abort"}

\* thread w has a step of its own to take: it is in solve(), the process
\* has not aborted, and it does not wait at a barrier
CanStep(w) ==
    /\ w \in Team /\ ~Aborted
    /\ pc[w] \notin {"barrier1", "barrier2", "barrier3", "barrier4", "done", "abort"}

\* thread w takes a step of its own: WorkerStep(w) seen from outside, as
\* every step of a thread moves its pc and no other thread's
Runs(w) ==
    /\ CanStep(w)
    /\ \E v \in PcValues \ {pc[w]} : pc' = [pc EXCEPT ![w] = v]

\* every thread of the parallel region keeps running while it has a step to
\* take, and a barrier opens once the whole team has arrived; calls of
\* setNeedToInterrupt come from outside and need never happen
FairSpec ==
    /\ Init /\ [][Next]_vars
    /\ \A w \in Workers : WF_pc(Runs(w))
    /\ WF_vars(Barrier1) /\ WF_vars(Barrier2)
    /\ WF_vars(WaitAllThreads) /\ WF_vars(ToDetachFree)

-----------------------------------------------------------------------------
(* The Simplifier at work, before any worker is started *)

\* the ClauseSimp objects handed to the CSet: the clause of index i is the
\* object at address i + 1, its abstraction is 1 or, once strengthened, 3
ClauseSimps == {[clause |-> i + 1, abst |-> a, index |-> i] : i \in 0..MaxIndex, a \in {1, 3}}

\* the clauses handed to subset: the literals are those of one variable
SubsetClauses == UNION {[1..n -> Lits(1)] : n \in 0..MaxSubsetLen}

Add ==
    /\ \E c \in ClauseSimps : \E r \in {add(simp.set, c)} :
           simp' = [simp EXCEPT !.set = r.cs, !.last = [op |-> "add", c |-> c, ret |-> r.ret]]
    /\ UNCHANGED <<input, control, cc, frame, pc>>

Exclude ==
    /\ \E c \in ClauseSimps : \E r \in {exclude(simp.set, c)} :
           simp' = [simp EXCEPT !.set = r.cs, !.last = [op |-> "exclude", c |-> c, ret |-> r.ret]]
    /\ UNCHANGED <<input, control, cc, frame, pc>>

Clear ==
    /\ simp' = [simp EXCEPT !.set = clear(simp.set), !.last = [op |-> "clear"]]
    /\ UNCHANGED <<input, control, cc, frame, pc>>

Update ==
    /\ \E c \in ClauseSimps :
           simp' = [simp EXCEPT !.set = update(simp.set, c), !.last = [op |-> "update", c |-> c]]
    /\ UNCHANGED <<input, control, cc, frame, pc>>

Subset ==
    /\ \E A \in SubsetClauses, B \in SubsetClauses : \E r \in {subset(A, B, simp.seen)} :
           simp' = [simp EXCEPT !.seen = r.seen,
                                !.last = [op |-> "subset", A |-> A, B |-> B, ret |-> r.ret]]
    /\ UNCHANGED <<input, control, cc, frame, pc>>

SimplifierInit == Init /\ input.longs = FormulaFinal.longs

SimplifierNext == Add \/ Exclude \/ Clear \/ Update \/ Subset

SimplifierSpec == SimplifierInit /\ [][SimplifierNext]_vars

-----------------------------------------------------------------------------
(* The meaning of the formula the coordinator hands to the workers *)

\* the input clauses: the unit facts, the binary and the longer clauses
OriginalClauses ==
    {<<input.trail[i]>> : i \in 1..Len(input.trail)} \cup Range(input.bins) \cup Range(input.longs)

Returned(w, status) == pc[w] = "done" /\ frame[w].status = status

\* literal l is True in the three-valued assignment a
TrueIn(a, l) == a[VarOf(l)] = (IF SignOf(l) THEN "F" ELSE "T")

SatisfiedBy(a, cl) == \E i \in 1..Len(cl) : TrueIn(a, cl[i])

\* the total assignments that satisfy every input clause
Models ==
    {m \in [Vars(input.nVars) -> {"T", "F"}] : \A cl \in OriginalClauses : SatisfiedBy(m, cl)}

\* worker w has copied an entry of a peer from the logs into its inbox
ImportedFromPeer(w) == cc[w].gotFrom \ {w} # {}

-----------------------------------------------------------------------------
(* Claims *)

\* C1: SAT soundness.  When solve has returned l_True, the saved solution
\* satisfies every original input clause, whatever was imported from peers.
C1_SatSound ==
    \A w \in Workers : Returned(w, "l_True") =>
        \A cl \in OriginalClauses : SatisfiedBy(cc[w].solution, cl)

\* a worker that has learnt from a conflict and imported from its peer returns l_True
C1_Witness ==
    \E w \in Workers : /\ Returned(w, "l_True")
                       /\ ImportedFromPeer(w)
                       /\ cc[w].numConflicts > 0

\* C2: UNSAT soundness.  When solve, called with no assumptions, has returned
\* l_False, the input formula has no satisfying assignment.
C2_UnsatSound ==
    \A w \in Workers : Returned(w, "l_False") /\ input.assumps = <<>> => Models = {}

\* l_False comes from an import that failed in addOtherClauses: the worker
\* gave up with clauses of its inbox still to add
C2_Witness ==
    \E w \in Workers : /\ Returned(w, "l_False")
                       /\ input.assumps = <<>>
                       /\ cc[w].unitToAdd # <<>>

\* C3: when solve has returned l_True, every decision variable is assigned in
\* the solution and every assumption literal is True in it.
C3_TotalExtendsAssumptions ==
    \A w \in Workers : Returned(w, "l_True") =>
        /\ \A x \in Vars(input.nVars) : input.decision_var[x] => cc[w].solution[x] # "U"
        /\ \A i \in 1..Len(input.assumps) : TrueIn(cc[w].solution, input.assumps[i])

\* l_True under assumptions after a conflict, a backjump and a restart
C3_Witness ==
    \E w \in Workers : /\ Returned(w, "l_True")
                       /\ input.assumps # <<>>
                       /\ cc[w].numConflicts > 0
                       /\ cc[w].numRestarts > 1

\* C4: when solve has returned l_False with a non-empty conflict vector, the
\* assumptions the vector refers to are sufficient for the contradiction: no
\* model of the formula makes all of them true.
C4_ConflictSufficient ==
    \A w \in Workers : Returned(w, "l_False") /\ cc[w].conflict # <<>> =>
        ~ \E m \in Models : \A i \in 1..Len(cc[w].conflict) : TrueIn(m, Neg(cc[w].conflict[i]))

C6_SameVerdict ==
    ~ \E v, w \in Workers : Returned(v, "l_True") /\ Returned(w, "l_False")

\* both workers have returned the same verdict, one of them after an import
C6_Witness ==
    \E v, w \in Workers :
        /\ v # w
        /\ frame[v].status = frame[w].status
        /\ Returned(v, frame[v].status) /\ Returned(w, frame[w].status)
        /\ frame[v].status # "l_Undef"
        /\ ImportedFromPeer(v)

\* the loop of solve() has ended for worker w with no verdict: the budget is
\* exhausted or the interrupt flag is set
StoppedWithoutVerdict(w) ==
    /\ pc[w] \in {"solve_loop", "solve_end"}
    /\ frame[w].status = "l_Undef"
    /\ cc[w].needToInterrupt \/ cc[w].lastSumConfl >= frame[w].maxConfls

\* the assert()s of solve and search that guard the budget and the restart
BudgetAsserts == {"solve: precondition", "solve: numConflicts < maxConfls", "search: ok"}

\* C7: when the budget is exhausted or the interrupt flag is set before a
\* verdict, solve returns l_Undef as an ordinary value: its next step is the
\* return, none of the assertions on that path fails, and on every return
\* from solve the worker is at decision level 0.
C7_UndefIsOrdinaryReturn ==
    /\ [](\A w \in Workers : /\ pc[w] = "done" => decisionLevel(cc[w]) = 0 /\ cc[w].failed = ""
                             /\ cc[w].failed \notin BudgetAsserts)
    /\ [][\A w \in Workers : StoppedWithoutVerdict(w) /\ pc'[w] # pc[w] =>
              /\ pc'[w] = "done"
              /\ frame'[w].status = "l_Undef"
              /\ cc'[w].trail_lim = <<>>]_vars

\* a worker has returned l_Undef on an exhausted budget, after conflicts
C7_Witness ==
    \E w \in Workers : /\ Returned(w, "l_Undef")
                       /\ ~cc[w].needToInterrupt
                       /\ cc[w].lastSumConfl >= frame[w].maxConfls
                       /\ cc[w].numConflicts > 0

\* C8: after solve has returned l_Undef its preconditions hold again: ok is
\* true and the propagation queue is empty, qhead == trail.size().
C8_ReinvocableAfterUndef ==
    \A w \in Workers : Returned(w, "l_Undef") =>
        cc[w].ok /\ cc[w].qhead = Len(cc[w].trail)

\* worker w is inside search() and has seen the interrupt flag at a conflict
InterruptObserved(w) ==
    /\ cc[w].needToInterrupt
    /\ frame[w].params.needToStopSearch

\* C9: once the worker has observed the interrupt flag at a conflict it makes
\* no further decision in that search call, and solve returns l_Undef, or
\* l_False; the statistics counters are never reset.
C9_InterruptStopsDeciding ==
    /\ [][\A w \in Workers :
              InterruptObserved(w) /\ pc[w] \in {"conflict", "import", "propagate", "quiescent"} =>
                  /\ cc'[w].decisions = cc[w].decisions
                  /\ Len(cc'[w].trail_lim) <= Len(cc[w].trail_lim)]_vars
    /\ [](\A w \in Workers : InterruptObserved(w) /\ pc[w] = "done" =>
              frame[w].status \in {"l_Undef", "l_False"})
    /\ [][\A w \in Workers : /\ cc'[w].numConflicts >= cc[w].numConflicts
                             /\ cc'[w].decisions >= cc[w].decisions
                             /\ cc'[w].rnd_decisions >= cc[w].rnd_decisions
                             /\ cc'[w].numRestarts >= cc[w].numRestarts]_vars

\* an interrupted worker has returned l_Undef with its statistics
C9_Witness ==
    \E w \in Workers : /\ Returned(w, "l_Undef")
                       /\ InterruptObserved(w)
                       /\ cc[w].decisions > 0
                       /\ cc[w].numConflicts > 0
                       /\ cc[w].numRestarts > 0

\* the positions of a log below the cursor hold entries that worker w has
\* appended itself or has copied to its inbox
NoSkippedEntry(w, log, cursor, got) ==
    \A i \in 1..Min2(cursor, Len(log)) : log[i] = w \/ i \in got

\* C10: between two clean-ups no entry of a peer is skipped: whatever lies
\* below a cursor of a worker was published by the worker or copied to its
\* inbox, and the cursor counts exactly these entries.
C10_CursorsSkipNothing ==
    \A w \in Team : pc[w] # "detach" =>
        /\ NoSkippedEntry(w, control.from.unit, cc[w].lastUnit, cc[w].got.unit)
        /\ NoSkippedEntry(w, control.from.bin, cc[w].lastBin, cc[w].got.bin)
        /\ NoSkippedEntry(w, control.from.long, cc[w].lastLong, cc[w].got.long)

-----------------------------------------------------------------------------
(* cancelUntil, applied to the state of every worker in every reachable    *)
(* state and for every level of that state                                 *)

\* the variables of the trail entries of s above level lvl
Undone(s, lvl) ==
    {VarOf(At(s.trail, i)) : i \in At(s.trail_lim, lvl) .. Len(s.trail) - 1}

\* the levels below the decision level of worker w
LevelsBelow(w) == 0 .. decisionLevel(cc[w]) - 1

\* what t = cancelUntil(lvl) has done to the assignment, the heap and the
\* saved polarities of the undone variables of s
UndoneEffect(s, t, lvl) ==
    \A x \in Undone(s, lvl) :
        /\ t.assigns[x] = "U"
        /\ input.decision_var[x] => x \in t.order_heap
        /\ t.polarity[x] = (s.assigns[x] = "T")

\* what t = cancelUntil(lvl) has done to the trail of s, and what it has left alone
TrailEffect(s, t, lvl) ==
    /\ t.trail = Prefix(s.trail, At(s.trail_lim, lvl))
    /\ t.trail_lim = Prefix(s.trail_lim, lvl)
    /\ t.qhead = At(s.trail_lim, lvl)
    /\ \A x \in (DOMAIN s.assigns) \ Undone(s, lvl) :
           /\ t.assigns[x] = s.assigns[x]
           /\ t.level[x] = s.level[x]
           /\ t.reason[x] = s.reason[x]

C17_CancelUntilIdempotent ==
    \A w \in Workers :
        /\ \A k \in decisionLevel(cc[w]) .. decisionLevel(cc[w]) + 1 :
               cancelUntil(cc[w], k) = cc[w]
        /\ \A k \in 0 .. decisionLevel(cc[w]) :
               cancelUntil(cancelUntil(cc[w], k), k) = cancelUntil(cc[w], k)

\* a worker above level 0 whose queue is not drained: the first
\* cancelUntil(0) acts, and at its own level cancelUntil finds a queue to keep
C17_Witness ==
    \E w \in Workers :
        /\ decisionLevel(cc[w]) >= 1
        /\ cc[w].qhead < Len(cc[w].trail)

-----------------------------------------------------------------------------
(* The trail and its limits *)

\* C18: in every reachable state the trail limits are strictly increasing,
\* the levels opened for assumptions that are already True included (that
\* |trail_lim| = decisionLevel() is how decisionLevel() is computed).
C18_TrailLimStrict ==
    \A w \in Workers : \A i \in 1 .. Len(cc[w].trail_lim) - 1 :
        cc[w].trail_lim[i] < cc[w].trail_lim[i + 1]

\* C18, amended: the trail limits never decrease and never pass the end of
\* the trail; two of them are equal only where the level between them was
\* opened for an assumption that is already True.
C18_TrailLimIncreasing ==
    \A w \in Workers :
        /\ decisionLevel(cc[w]) = Len(cc[w].trail_lim)
        /\ \A i \in 1 .. Len(cc[w].trail_lim) : cc[w].trail_lim[i] <= Len(cc[w].trail)
        /\ \A i \in 1 .. Len(cc[w].trail_lim) - 1 :
               /\ cc[w].trail_lim[i] <= cc[w].trail_lim[i + 1]
               /\ cc[w].trail_lim[i] = cc[w].trail_lim[i + 1] =>
                      /\ i <= Len(cc[w].assumptions)
                      /\ value(cc[w], cc[w].assumptions[i]) = "T"

\* a worker has opened a level for an assumption that is already True and
\* has made a decision above it
C18_Witness ==
    \E w \in Workers :
        /\ decisionLevel(cc[w]) >= 2
        /\ cc[w].trail_lim[1] = cc[w].trail_lim[2]
        /\ Len(cc[w].trail) > cc[w].trail_lim[2]

\* every trail entry of s is a True literal, no variable is on the trail
\* twice, and every assigned variable is on the trail
TrailExact(s) ==
    /\ \A i \in 1 .. Len(s.trail) : value(s, s.trail[i]) = "T"
    /\ \A i, j \in 1 .. Len(s.trail) : i # j => VarOf(s.trail[i]) # VarOf(s.trail[j])
    /\ \A x \in DOMAIN s.assigns :
           s.assigns[x] # "U" => \E i \in 1 .. Len(s.trail) : VarOf(s.trail[i]) = x

\* C19: in every reachable state each assigned variable is on the trail
\* exactly once and each trail entry is a True literal; no enqueue has
\* found its literal already assigned.
C19_TrailExact ==
    \A w \in Workers :
        /\ TrailExact(cc[w])
        /\ cc[w].failed # "enqueue: value(p) != l_Undef"

C19_Witness ==
    \E w \in Workers :
        /\ control.sumConflicts >= 1
        /\ decisionLevel(cc[w]) >= 1
        /\ Len(cc[w].trail) >= 2
        /\ \E x \in DOMAIN cc[w].assigns : cc[w].assigns[x] = "U" /\ cc[w].level[x] >= 1
        /\ \E x \in DOMAIN cc[w].assigns : cc[w].assigns[x] # "U" /\ cc[w].reason[x] # PropByNull

-----------------------------------------------------------------------------
(* Reasons *)

\* l is False in s, at a level not above the level of variable x
FalseBelow(s, l, x) == value(s, l) = "F" /\ s.level[VarOf(l)] <= s.level[x]

\* the literal of variable x that is True in s
TrueLit(s, x) == IF s.assigns[x] = "T" THEN Pos(x) ELSE Not(x)

\* the reason recorded for the assigned variable x is a clause made of the
\* literal of x, at the recorded position, and of literals False at levels
\* not above the level of x
ReasonConsistent(s, alloc, x) ==
    LET r == s.reason[x]
    IN  CASE r.type = "binary_t" -> FalseBelow(s, r.a, x)
          [] r.type = "tertiary_t" -> FalseBelow(s, r.a, x) /\ FalseBelow(s, r.b, x)
          [] r.type = "clause_t" ->
                /\ r.a \in DOMAIN s.litPos
                /\ At(alloc[r.a], s.litPos[r.a][r.b + 1]) = TrueLit(s, x)
                /\ \A j \in 0 .. Len(alloc[r.a]) - 1 :
                       j # s.litPos[r.a][r.b + 1] => FalseBelow(s, At(alloc[r.a], j), x)
          [] OTHER -> TRUE

\* C20: for every assigned variable with a reason, the reason clause holds
\* the variable's True literal at the position recorded for the reason and
\* all its other literals are False at a level not above the variable's.
C20_ReasonConsistent ==
    \A w \in Workers : \A x \in DOMAIN cc[w].assigns :
        cc[w].assigns[x] # "U" => ReasonConsistent(cc[w], control.clAllocator, x)

\* the long clause at offset off was published by a peer of worker w
ImportedLong(w, off) ==
    \E i \in DOMAIN control.longLearntsToAdd :
        control.longLearntsToAdd[i] = off /\ control.from.long[i] # w

C20_Witness ==
    \E w \in Workers : \E x \in DOMAIN cc[w].assigns :
        /\ cc[w].assigns[x] # "U"
        /\ cc[w].reason[x].type = "clause_t"
        /\ ImportedLong(w, cc[w].reason[x].a)
        /\ cc[w].litPos[cc[w].reason[x].a][1] # 0
        /\ \E y \in DOMAIN cc[w].assigns :
               cc[w].assigns[y] # "U" /\ cc[w].reason[y].type = "binary_t"

-----------------------------------------------------------------------------
(* Imported clauses *)

\* the clauses of the shared logs that worker w has copied from a peer and
\* has attached: binaries as pairs, long clauses as offsets
HasBinWatch(s, b) ==
    \E i \in 1 .. Len(s.watches[Neg(b[1])]) :
        s.watches[Neg(b[1])][i].type = "binary" /\ s.watches[Neg(b[1])][i].a = b[2]

HasLongWatch(s, cl, off) ==
    \E i \in 1 .. Len(cl) : \E j \in 1 .. Len(s.watches[Neg(cl[i])]) :
        /\ s.watches[Neg(cl[i])][j].type \in {"tri", "clause"}
        /\ s.watches[Neg(cl[i])][j].type = "clause" => s.watches[Neg(cl[i])][j].a = off
        /\ s.watches[Neg(cl[i])][j].type = "tri" =>
               {cl[i], s.watches[Neg(cl[i])][j].a, s.watches[Neg(cl[i])][j].b} = Range(cl)

ImportedBins(w) ==
    {b \in {control.binLearntsToAdd[i] :
                i \in {j \in cc[w].got.bin : control.from.bin[j] # w}} :
        HasBinWatch(cc[w], b)}

ImportedLongs(w) ==
    {off \in {control.longLearntsToAdd[i] :
                  i \in {j \in cc[w].got.long : control.from.long[j] # w}} :
        HasLongWatch(cc[w], control.clAllocator[off], off)}

\* worker w has propagated to quiescence with nothing left in its inbox
Quiescent(w) ==
    /\ pc[w] = "quiescent" /\ cc[w].failed = ""
    /\ cc[w].unitToAdd = <<>> /\ cc[w].binToAdd = <<>> /\ cc[w].longToAdd = <<>>

\* the clause lits is unit in s: one literal Undef, all others False
UnitIn(s, lits) ==
    \E i \in 1 .. Len(lits) :
        value(s, lits[i]) = "U" /\ \A j \in 1 .. Len(lits) : j # i => value(s, lits[j]) = "F"

\* the clause lits has a True literal, or all its literals are False
SatisfiedOrConflict(s, lits) ==
    \/ \E i \in 1 .. Len(lits) : value(s, lits[i]) = "T"
    \/ \A i \in 1 .. Len(lits) : value(s, lits[i]) = "F"

\* both watched literals of the long clause at offset off are False in s
BothWatchesFalse(s, alloc, off) ==
    /\ off \in DOMAIN s.litPos
    /\ value(s, At(alloc[off], s.litPos[off][1])) = "F"
    /\ value(s, At(alloc[off], s.litPos[off][2])) = "F"

\* C11: once a worker has propagated to quiescence, no clause it imported
\* from a peer is unit with its last literal not enqueued, and no imported
\* clause that is neither satisfied nor a conflict has both watched
\* literals False.
C11_ImportLosesNoPropagation ==
    \A w \in Workers : Quiescent(w) =>
        /\ \A b \in ImportedBins(w) : ~UnitIn(cc[w], b)
        /\ \A off \in ImportedLongs(w) :
               /\ ~UnitIn(cc[w], control.clAllocator[off])
               /\ SatisfiedOrConflict(cc[w], control.clAllocator[off])
                      \/ ~BothWatchesFalse(cc[w], control.clAllocator, off)

\* worker w is about to drain an inbox that holds a clause falsified at
\* level 0: its addOtherClauses returns false
DrainFindsFalsified(w) ==
    /\ cc[w].failed = ""
    /\ ~addOtherClauses(cc[w], control.clAllocator).ret

\* C12: a drain of the inbox that finds a clause falsified at level 0 makes
\* solve return l_False and never ends in a failed assertion: after a
\* conflict in search the worker leaves search with l_False, and at the
\* clean-up barrier it goes on to the end of the barrier sequence and then
\* returns l_False.
C12_FalsifiedImportReturnsFalse ==
    [][\A w \in Workers :
          /\ (pc[w] = "import" /\ pc'[w] # "import" /\ DrainFindsFalsified(w)) =>
                 (pc'[w] = "after_search" /\ frame'[w].status = "l_False")
          /\ (pc[w] = "barrier_import" /\ pc'[w] # "barrier_import" /\ DrainFindsFalsified(w)) =>
                 pc'[w] = "barrier3"
          /\ (~frame[w].ret /\ pc[w] # "done" /\ pc'[w] = "done") =>
                 frame'[w].status = "l_False"]_vars

-----------------------------------------------------------------------------
(* The clean-up barrier *)

\* C13: a worker that has arrived at the first barrier of the clean-up is
\* eventually released from the barrier sequence and is back at the loop of
\* solve; no worker waits for ever for a peer that has left its loop.
C13_BarrierReleases ==
    \A w \in Workers : (pc[w] = "barrier1") ~> (pc[w] = "solve_loop")

\* worker w has copied to its inbox every entry of the three logs that a
\* peer has published, holds nothing in its inbox, and its cursors stand
\* at the ends of the logs
DrainedAll(w) ==
    /\ cc[w].unitToAdd = <<>> /\ cc[w].binToAdd = <<>> /\ cc[w].longToAdd = <<>>
    /\ cc[w].lastUnit = Len(control.unitLearntsToAdd)
    /\ cc[w].lastBin = Len(control.binLearntsToAdd)
    /\ cc[w].lastLong = Len(control.longLearntsToAdd)
    /\ \A i \in 1 .. Len(control.unitLearntsToAdd) :
           control.from.unit[i] = w \/ i \in cc[w].got.unit
    /\ \A i \in 1 .. Len(control.binLearntsToAdd) :
           control.from.bin[i] = w \/ i \in cc[w].got.bin
    /\ \A i \in 1 .. Len(control.longLearntsToAdd) :
           control.from.long[i] = w \/ i \in cc[w].got.long

\* a step that truncates the logs
Truncates ==
    \/ Len(control'.unitLearntsToAdd) < Len(control.unitLearntsToAdd)
    \/ Len(control'.binLearntsToAdd) < Len(control.binLearntsToAdd)
    \/ Len(control'.longLearntsToAdd) < Len(control.longLearntsToAdd)

\* a step that appends to a log
Appends ==
    \/ Len(control'.unitLearntsToAdd) > Len(control.unitLearntsToAdd)
    \/ Len(control'.binLearntsToAdd) > Len(control.binLearntsToAdd)
    \/ Len(control'.longLearntsToAdd) > Len(control.longLearntsToAdd)

\* C14: the logs are truncated only while every worker of the team waits
\* inside the barrier sequence, having copied every published entry to its
\* inbox and emptied the inbox; no worker appends to a log while a worker is
\* between its drain and the truncation; a worker resumes with its three
\* cursors at 0.
C14_CleanUpLosesNothing ==
    [][/\ Truncates =>
              \A w \in Team : pc[w] = "barrier3" /\ DrainedAll(w)
       /\ Appends =>
              \A w \in Team : pc[w] \notin {"barrier2", "barrier_import", "barrier3"}
       /\ \A w \in Team :
              (pc[w] = "barrier4" /\ pc'[w] = "solve_loop") =>
                  cc'[w].lastUnit = 0 /\ cc'[w].lastBin = 0 /\ cc'[w].lastLong = 0]_vars

-----------------------------------------------------------------------------
(* Learnt clauses *)

\* the literals of the clause that propagate has found falsified
ConflictLits(s, alloc, confl) ==
    CASE confl.type = "binary_t" -> {s.failBinLit, confl.a}
      [] confl.type = "tertiary_t" -> {s.failBinLit, confl.a, confl.b}
      [] confl.type = "clause_t" -> Range(alloc[confl.a])
      [] OTHER -> {}

\* the assigned variables of the current decision level
CurLevel(s) ==
    {x \in DOMAIN s.assigns : s.assigns[x] # "U" /\ s.level[x] = decisionLevel(s)}

\* the variables of the current level that the reason of variable x holds
\* besides x
Antecedents(s, alloc, x) ==
    LET r == s.reason[x]
    IN  (CASE r.type = "binary_t" -> {VarOf(r.a)}
           [] r.type = "tertiary_t" -> {VarOf(r.a), VarOf(r.b)}
           [] r.type = "clause_t" -> {VarOf(l) : l \in Range(alloc[r.a])} \ {x}
           [] OTHER -> {})
        \cap CurLevel(s)

\* the variables of the current level the conflict depends on, the reasons
\* followed backwards from the set S but never through the variable u
RECURSIVE BackClosure(_, _, _, _)
BackClosure(s, alloc, S, u) ==
    LET N == S \cup UNION {Antecedents(s, alloc, y) : y \in S \ {u}}
    IN  IF N = S THEN S ELSE BackClosure(s, alloc, N, u)

\* u is a unique implication point of the conflict: the conflict depends on
\* u, and followed backwards up to u it depends on no other variable of the
\* current level that has no reason
IsUIP(s, alloc, confl, u) ==
    LET B == BackClosure(s, alloc,
                         {VarOf(l) : l \in ConflictLits(s, alloc, confl)} \cap CurLevel(s), u)
    IN  /\ u \in B
        /\ \A y \in B \ {u} : s.reason[y].type # "null_clause_t"

\* the position of variable x on the trail
TrailPos(s, x) == CHOOSE i \in 1 .. Len(s.trail) : VarOf(s.trail[i]) = x

\* the unique implication points of the conflict
UIPs(s, alloc, confl) == {u \in CurLevel(s) : IsUIP(s, alloc, confl, u)}

\* the highest level among lits[2..], 0 if there is none
SecondLevel(s, lits) ==
    IF Len(lits) <= 1 THEN 0
    ELSE CHOOSE l \in {s.level[VarOf(lits[i])] : i \in 2 .. Len(lits)} :
             \A i \in 2 .. Len(lits) : s.level[VarOf(lits[i])] <= l

\* an, returned by analyze for the conflict confl of s, is an asserting
\* clause with its backtrack level
Asserting(s, alloc, confl, an, back) ==
    /\ an.s.failed = ""
    /\ Len(an.out_learnt) >= 1
    /\ \E u \in UIPs(s, alloc, confl) :
           /\ \A v \in UIPs(s, alloc, confl) : TrailPos(s, v) <= TrailPos(s, u)
           /\ an.out_learnt[1] = Neg(TrueLit(s, u))
    /\ \A i \in 2 .. Len(an.out_learnt) :
           /\ value(s, an.out_learnt[i]) = "F"
           /\ s.level[VarOf(an.out_learnt[i])] < decisionLevel(s)
    /\ an.out_btlevel = SecondLevel(s, an.out_learnt)
    /\ back.failed = ""
    /\ value(back, an.out_learnt[1]) = "U"
    /\ \A i \in 2 .. Len(an.out_learnt) : value(back, an.out_learnt[i]) = "F"

\* the same, cancelUntil(out_btlevel) applied to what analyze has returned
AssertingAfter(s, alloc, confl, an) ==
    Asserting(s, alloc, confl, an, cancelUntil(an.s, an.out_btlevel))

\* C21: for every conflict above level 0, analyze returns a clause whose
\* position 0 is the negated first unique implication point and the only
\* literal of the current level, with out_btlevel the highest level among
\* the other literals (0 for a unit); after cancelUntil(out_btlevel)
\* position 0 is Undef and the others are False, and the assertion of
\* handle_conflict on position 0 does not fail.  (Without the cache analyze
\* does not return: it stops at the assertion of minimiseLearntFurther,
\* which C30 is about.)
C21_AnalyzeAsserting ==
    \A w \in Workers :
        /\ cc[w].failed # "handle_conflict: value(learnt_clause[0]) == l_Undef"
        /\ (pc[w] = "conflict" /\ decisionLevel(cc[w]) > 0) =>
               \A an \in {analyze(cc[w], control.clAllocator, frame[w].confl)} :
                   an.s.failed # "minimiseLearntFurther: conf.doCache" =>
                       AssertingAfter(cc[w], control.clAllocator, frame[w].confl, an)

C21_Witness ==
    \E w \in Workers :
        /\ pc[w] = "conflict" /\ decisionLevel(cc[w]) > 1
        /\ \E an \in {analyze(cc[w], control.clAllocator, frame[w].confl)} :
               /\ Len(an.out_learnt) >= 3
               /\ an.out_btlevel >= 1
               /\ an.out_btlevel < decisionLevel(cc[w]) - 1
               /\ Neg(an.out_learnt[1]) # cc[w].trail[Len(cc[w].trail)]

\* the step has appended exactly one entry to the log named and none to the
\* other two
GrewOnly(which) ==
    /\ Len(control'.unitLearntsToAdd) =
           Len(control.unitLearntsToAdd) + (IF which = "unit" THEN 1 ELSE 0)
    /\ Len(control'.binLearntsToAdd) =
           Len(control.binLearntsToAdd) + (IF which = "bin" THEN 1 ELSE 0)
    /\ Len(control'.longLearntsToAdd) =
           Len(control.longLearntsToAdd) + (IF which = "long" THEN 1 ELSE 0)

\* the step has appended the watches ws[p], and no other, to the watch
\* lists of worker w
WatchesGrewBy(w, ws) ==
    \A p \in DOMAIN cc[w].watches :
        cc'[w].watches[p] =
            cc[w].watches[p] \o (IF p \in DOMAIN ws THEN ws[p] ELSE <<>>)

\* the last entry of a sequence
Last(seq) == seq[Len(seq)]

\* the step has made literal p True at the level worker w is left at, as the
\* last entry of its trail, with the reason named
EnqueuedLast(w, p, from) ==
    /\ value(cc'[w], p) = "T"
    /\ Last(cc'[w].trail) = p
    /\ cc'[w].level[VarOf(p)] = decisionLevel(cc'[w])
    /\ cc'[w].reason[VarOf(p)] = from

\* what handle_conflict has done with the clause it has learnt, by size
AttachedBySize(w) ==
    \/ /\ GrewOnly("unit")
       /\ WatchesGrewBy(w, <<>>)
       /\ EnqueuedLast(w, Last(control'.unitLearntsToAdd), PropByNull)
       /\ decisionLevel(cc'[w]) = 0
    \/ /\ GrewOnly("bin")
       /\ \E cl \in {Last(control'.binLearntsToAdd)} :
              /\ WatchesGrewBy(w, (Neg(cl[1]) :> <<WatchedBin(cl[2], TRUE)>>)
                                  @@ (Neg(cl[2]) :> <<WatchedBin(cl[1], TRUE)>>))
              /\ EnqueuedLast(w, cl[1], PropByBin(cl[2]))
    \/ /\ GrewOnly("long")
       /\ \E off \in {Last(control'.longLearntsToAdd)} :
          \E cl \in {control'.clAllocator[off]} :
              IF Len(cl) = 3
              THEN /\ WatchesGrewBy(w, (Neg(cl[1]) :> <<WatchedTri(cl[2], cl[3])>>)
                                       @@ (Neg(cl[2]) :> <<WatchedTri(cl[1], cl[3])>>)
                                       @@ (Neg(cl[3]) :> <<WatchedTri(cl[1], cl[2])>>))
                   /\ EnqueuedLast(w, cl[1], PropByTri(cl[2], cl[3]))
              ELSE /\ Len(cl) >= 4
                   /\ WatchesGrewBy(w, (Neg(cl[1]) :> <<WatchedLong(off, cl[2])>>)
                                       @@ (Neg(cl[2]) :> <<WatchedLong(off, cl[1])>>))
                   /\ cc'[w].litPos[off] = <<0, 1>>
                   /\ EnqueuedLast(w, cl[1], PropByClause(off, 0))

\* C22: a handle_conflict that has learnt a clause has published it and has
\* attached it by its size: a unit is enqueued without reason at decision
\* level 0; a binary gets its two binary watches and position 0 is enqueued
\* with the reason Binary(position 1); a 3-long clause gets its three
\* watches and the reason Ternary(position 1, position 2); a longer clause
\* is watched on positions 0 and 1 and position 0 is enqueued with the
\* reason LongClause(offset, 0).
C22_LearntAttachedBySize ==
    [][\A w \in Workers :
           (pc[w] = "conflict" /\ pc'[w] = "import") => AttachedBySize(w)]_vars

C22_Witness ==
    \E w \in Workers :
        /\ pc[w] = "import" /\ cc[w].failed = ""
        /\ control.longLearntsToAdd # <<>>
        /\ Last(control.from.long) = w
        /\ Len(control.clAllocator[Last(control.longLearntsToAdd)]) >= 4
        /\ cc[w].trail # <<>>
        /\ cc[w].reason[VarOf(Last(cc[w].trail))] =
               PropByClause(Last(control.longLearntsToAdd), 0)
        /\ control.binLearntsToAdd # <<>>

-----------------------------------------------------------------------------
(* Import rules *)

\* the literals that are True at level 0 in s
Level0True(s) ==
    {l \in Lits(input.nVars) : value(s, l) = "T" /\ s.level[VarOf(l)] = 0}

\* the unit import rule applied to units[i..], T being the literals True at
\* level 0: a unit of T is skipped, a unit whose negation is in T ends the
\* import with UNSAT, any other unit joins T; touched tells whether some
\* unit was not skipped
RECURSIVE UnitRule(_, _, _, _)
UnitRule(T, units, i, touched) ==
    IF i > Len(units) THEN [T |-> T, ok |-> TRUE, touched |-> touched]
    ELSE IF units[i] \in T THEN UnitRule(T, units, i + 1, touched)
    ELSE IF Neg(units[i]) \in T THEN [T |-> T, ok |-> FALSE, touched |-> TRUE]
    ELSE UnitRule(T \cup {units[i]}, units, i + 1, TRUE)

\* u, which the loop over the units has returned for s, is what the unit
\* import rule e prescribes
UnitsAsRule(s, u, e) ==
    /\ u.ret = e.ok
    /\ u.s.failed = ""
    /\ ~e.touched => u.s = [s EXCEPT !.unitToAdd = <<>>]
    /\ e.touched =>
           /\ decisionLevel(u.s) = 0
           /\ {l \in Lits(input.nVars) : value(u.s, l) = "T"} = e.T
           /\ \A l \in e.T :
                  /\ u.s.level[VarOf(l)] = 0
                  /\ l \notin Level0True(s) => u.s.reason[VarOf(l)] = PropByNull

\* r, which addOtherClauses has returned for s, has every unit of the inbox
\* of s True at level 0 if it has succeeded, and has failed if a unit has
UnitsTrueAfter(s, r, e) ==
    /\ ~e.ok => ~r.ret
    /\ (r.ret /\ r.s.failed = "") =>
           \A i \in 1 .. Len(s.unitToAdd) :
               /\ value(r.s, s.unitToAdd[i]) = "T"
               /\ r.s.level[VarOf(s.unitToAdd[i])] = 0

\* C23: whenever a worker is about to drain its inbox, in search or at the
\* clean-up barrier, the loop over the units does what the unit import rule
\* says (a unit True at level 0 changes nothing; otherwise the worker is
\* taken to level 0 and the unit is enqueued there without reason if Undef,
\* or the drain returns false if it is False), and after a successful
\* addOtherClauses every unit of the inbox is True at level 0.
C23_UnitImportRule ==
    \A w \in Workers :
        (pc[w] \in {"import", "barrier_import"} /\ cc[w].failed = "" /\ cc[w].ok) =>
            \A e \in {UnitRule(Level0True(cc[w]), cc[w].unitToAdd, 1, FALSE)} :
                /\ \A u \in {addUnits(cc[w], 1)} : UnitsAsRule(cc[w], u, e)
                /\ \A r \in {addOtherClauses(cc[w], control.clAllocator)} :
                       UnitsTrueAfter(cc[w], r, e)

\* a worker has drained, above level 0, a unit of a peer that was not True
\* at level 0, and is left at level 0 with the unit last on its trail
C23_Witness ==
    \E w \in Workers :
        /\ pc[w] = "propagate" /\ cc[w].failed = ""
        /\ cc[w].numConflicts >= 1
        /\ decisionLevel(cc[w]) = 0
        /\ cc[w].trail # <<>>
        /\ cc[w].qhead < Len(cc[w].trail)
        /\ cc[w].reason[VarOf(Last(cc[w].trail))] = PropByNull
        /\ \E i \in cc[w].got.unit :
               /\ i \in DOMAIN control.unitLearntsToAdd
               /\ control.from.unit[i] # w
               /\ control.unitLearntsToAdd[i] = Last(cc[w].trail)

\* s with the two watches of the binary clause b added
WithBinWatches(s, b) ==
    [s EXCEPT !.watches =
        [p \in DOMAIN @ |->
            @[p] \o (IF p = Neg(b[1]) THEN <<WatchedBin(b[2], TRUE)>> ELSE <<>>)
                 \o (IF p = Neg(b[2]) THEN <<WatchedBin(b[1], TRUE)>> ELSE <<>>)]]

\* the binary import rule for both literals False in s: hi is the literal
\* of the higher level, lo the other, att the worker with the clause attached
BinRuleFalse(att, hi, lo, r) ==
    IF att.level[VarOf(hi)] = 0
    THEN ~r.ret /\ ~r.s.ok
    ELSE /\ r.ret
         /\ \E c \in {cancelUntil(att, att.level[VarOf(hi)] - 1)} :
                r.s = IF value(c, lo) = "F" THEN enqueue(c, hi, PropByBin(lo)) ELSE c

\* r, which handleNewBin has returned for the binary clause b in s, is what
\* the binary import rule prescribes
BinRule(s, b, r) ==
    /\ r.s.failed = ""
    /\ IF value(s, b[1]) = "T" \/ value(s, b[2]) = "T"
          \/ (value(s, b[1]) = "U" /\ value(s, b[2]) = "U")
       THEN r = [s |-> WithBinWatches(s, b), ret |-> TRUE]
       ELSE IF value(s, b[1]) = "U"
       THEN r = [s |-> enqueue(WithBinWatches(s, b), b[1], PropByBin(b[2])), ret |-> TRUE]
       ELSE IF value(s, b[2]) = "U"
       THEN r = [s |-> enqueue(WithBinWatches(s, b), b[2], PropByBin(b[1])), ret |-> TRUE]
       ELSE IF s.level[VarOf(b[1])] >= s.level[VarOf(b[2])]
       THEN BinRuleFalse(WithBinWatches(s, b), b[1], b[2], r)
       ELSE BinRuleFalse(WithBinWatches(s, b), b[2], b[1], r)

\* the rule holds for every binary clause binToAdd[i..] as the drain comes
\* to it
RECURSIVE BinsAsRule(_, _)

BinsAsRuleNext(s, r, i) ==
    /\ BinRule(s, s.binToAdd[i], r)
    /\ r.ret => BinsAsRule(r.s, i + 1)

BinsAsRule(s, i) ==
    i > Len(s.binToAdd) \/ BinsAsRuleNext(s, handleNewBin(s, s.binToAdd[i]), i)

\* C24: whenever a worker is about to drain its inbox, handleNewBin does to
\* each binary clause, in the state the drain has reached, what the binary
\* import rule says: the clause is always attached; with a True literal or
\* two Undef literals nothing else changes; with one Undef and one False
\* literal the Undef one is enqueued with reason Binary(other); with both
\* False the drain fails with ok = false if the higher level is 0, else the
\* worker cancels to that level minus one and enqueues the literal of the
\* higher level iff the other one is still False.
C24_BinImportRule ==
    \A w \in Workers :
        (pc[w] \in {"import", "barrier_import"} /\ cc[w].failed = "" /\ cc[w].ok) =>
            \A u \in {addUnits(cc[w], 1)} : u.ret => BinsAsRule(u.s, 1)

\* a worker is about to import a binary clause whose two literals are False
\* at different levels above 0
C24_Witness ==
    \E w \in Workers :
        /\ pc[w] = "import" /\ cc[w].failed = ""
        /\ cc[w].unitToAdd = <<>> /\ cc[w].binToAdd # <<>>
        /\ value(cc[w], cc[w].binToAdd[1][1]) = "F"
        /\ value(cc[w], cc[w].binToAdd[1][2]) = "F"
        /\ cc[w].level[VarOf(cc[w].binToAdd[1][1])] # cc[w].level[VarOf(cc[w].binToAdd[1][2])]
        /\ cc[w].level[VarOf(cc[w].binToAdd[1][1])] > 0
        /\ cc[w].level[VarOf(cc[w].binToAdd[1][2])] > 0

\* the rank of the literal at position a of cl in the order of the long
\* import rule: True before Undef before False, the higher level first
\* among literals of one value
AttachRank(s, cl, a) ==
    (CASE value(s, At(cl, a)) = "T" -> 2
       [] value(s, At(cl, a)) = "U" -> 1
       [] OTHER -> 0) * (input.nVars + 1) + s.level[VarOf(At(cl, a))]

\* position a is a top position of cl among the positions P
TopAmong(s, cl, a, P) ==
    a \in P /\ \A b \in P : AttachRank(s, cl, b) <= AttachRank(s, cl, a)

\* the reason of the long import rule: the clause itself, named by its two
\* other literals if it is 3-long
LongReasons(cl, off, top, snd) ==
    IF Len(cl) = 3
    THEN {PropByTri(At(cl, snd), At(cl, third)) : third \in (0 .. 2) \ {top, snd}}
    ELSE {PropByClause(off, 0)}

\* the long import rule once the clause is attached (att) on top and snd
LongRuleAttached(s, att, cl, off, top, snd, r) ==
    IF value(s, At(cl, top)) = "T"
       \/ (value(s, At(cl, top)) = "U" /\ value(s, At(cl, snd)) = "U")
    THEN r = [s |-> att, ret |-> TRUE]
    ELSE IF value(s, At(cl, top)) = "U"
    THEN \E from \in LongReasons(cl, off, top, snd) :
             r = [s |-> enqueue(att, At(cl, top), from), ret |-> TRUE]
    ELSE IF s.level[VarOf(At(cl, top))] = 0
    THEN ~r.ret /\ ~r.s.ok
    ELSE /\ r.ret
         /\ \E c \in {cancelUntil(att, s.level[VarOf(At(cl, top))] - 1)} :
                IF value(c, At(cl, snd)) = "F"
                THEN \E from \in LongReasons(cl, off, top, snd) :
                         r.s = enqueue(c, At(cl, top), from)
                ELSE r.s = c

\* r, which handleNewLong has returned for the clause at offset off in s, is
\* what the long import rule prescribes for some choice of the top two
\* positions
LongRule(s, alloc, off, r) ==
    /\ r.s.failed = ""
    /\ \E top, snd \in 0 .. Len(alloc[off]) - 1 :
           /\ TopAmong(s, alloc[off], top, 0 .. Len(alloc[off]) - 1)
           /\ TopAmong(s, alloc[off], snd, (0 .. Len(alloc[off]) - 1) \ {top})
           /\ LongRuleAttached(s, attachClause(s, alloc, off, top, snd),
                               alloc[off], off, top, snd, r)

\* the rule holds for every long clause longToAdd[i..] as the drain comes
\* to it
RECURSIVE LongsAsRule(_, _, _)

LongsAsRuleNext(s, alloc, r, i) ==
    /\ LongRule(s, alloc, s.longToAdd[i], r)
    /\ r.ret => LongsAsRule(r.s, alloc, i + 1)

LongsAsRule(s, alloc, i) ==
    i > Len(s.longToAdd)
    \/ LongsAsRuleNext(s, alloc, handleNewLong(s, alloc, s.longToAdd[i]), i)

\* the state in which the drain of s comes to its long clauses: [s, ret]
BeforeLongs(s) ==
    LET u == addUnits(s, 1)
    IN  IF u.ret THEN addBins(u.s, 1) ELSE u

\* C25: whenever a worker is about to drain its inbox, handleNewLong does to
\* each long clause, in the state the drain has reached, what the long
\* import rule says: the positions are ordered True before Undef before
\* False, the higher level first, and the top two are watched; with a True
\* top or two Undef tops nothing is enqueued; an Undef top followed by False
\* literals is enqueued with the clause as reason; a False top at level 0
\* fails the drain; a False top at level L takes the worker to level L-1
\* and is enqueued iff the second literal is still False; none of the
\* assertions of handleNewLong fails.
C25_LongImportRule ==
    \A w \in Workers :
        (pc[w] \in {"import", "barrier_import"} /\ cc[w].failed = "" /\ cc[w].ok) =>
            \A b \in {BeforeLongs(cc[w])} :
                b.ret => LongsAsRule(b.s, control.clAllocator, 1)

\* a worker is about to import a long clause all of whose literals are
\* False, one of them at a level above the levels of all the others
C25_Witness ==
    \E w \in Workers :
        /\ pc[w] = "import" /\ cc[w].failed = ""
        /\ cc[w].unitToAdd = <<>> /\ cc[w].binToAdd = <<>> /\ cc[w].longToAdd # <<>>
        /\ \E cl \in {control.clAllocator[cc[w].longToAdd[1]]} :
               /\ \A i \in 1 .. Len(cl) : value(cc[w], cl[i]) = "F"
               /\ \E i \in 1 .. Len(cl) : \A j \in (1 .. Len(cl)) \ {i} :
                      /\ cc[w].level[VarOf(cl[j])] < cc[w].level[VarOf(cl[i])]
                      /\ cc[w].level[VarOf(cl[j])] > 0

-----------------------------------------------------------------------------
(* Decisions *)

\* the first index k >= decisionLevel() of an assumption that is not True
\* in s; the number of assumptions if there is none
RECURSIVE FirstNotTrue(_, _)
FirstNotTrue(s, k) ==
    IF k >= Len(s.assumptions) \/ value(s, At(s.assumptions, k)) # "T" THEN k
    ELSE FirstNotTrue(s, k + 1)

\* s with dummy decision levels up to level k
RECURSIVE WithDummyLevels(_, _)
WithDummyLevels(s, k) ==
    IF decisionLevel(s) >= k THEN s ELSE WithDummyLevels(newDecisionLevel(s), k)

\* what new_decision has made of s (t, with the status it has returned) when
\* the assumptions from index decisionLevel() on are True up to index k
AssumptionRule(s, alloc, t, status, k) ==
    IF k < Len(s.assumptions) /\ value(s, At(s.assumptions, k)) = "F"
    THEN /\ status = "l_False"
         /\ t.trail = s.trail /\ t.trail_lim = WithDummyLevels(s, k).trail_lim
         /\ t.conflict = analyzeFinal(WithDummyLevels(s, k), alloc,
                                      Neg(At(s.assumptions, k))).conflict
    ELSE IF k < Len(s.assumptions)
    THEN /\ status = "l_Undef"
         /\ t.trail_lim = WithDummyLevels(s, k + 1).trail_lim
         /\ t.trail = Append(s.trail, At(s.assumptions, k))
         /\ t.reason[VarOf(At(s.assumptions, k))] = PropByNull
    ELSE /\ t.trail_lim \in {WithDummyLevels(s, k).trail_lim,
                             Append(WithDummyLevels(s, k).trail_lim, Len(s.trail))}
         /\ IF status = "l_True"
            THEN t.trail = s.trail /\ decisionLevel(t) = decisionLevel(WithDummyLevels(s, k))
            ELSE /\ status = "l_Undef"
                 /\ decisionLevel(t) = decisionLevel(WithDummyLevels(s, k)) + 1
                 /\ \E q \in Lits(input.nVars) :
                        /\ value(s, q) = "U"
                        /\ t.trail = Append(s.trail, q)
                        /\ t.reason[VarOf(q)] = PropByNull

\* the assumptions of the levels worker w has opened are True
AssumptionsTrue(w) ==
    \A i \in 1 .. Min2(decisionLevel(cc[w]), Len(cc[w].assumptions)) :
        value(cc[w], cc[w].assumptions[i]) = "T"

\* the step is new_decision of worker w
NewDecisionStep(w) ==
    /\ pc[w] = "quiescent"
    /\ \/ pc'[w] = "propagate"
       \/ pc'[w] = "after_search" /\ frame'[w].status # "l_Undef"

\* C26: new_decision consumes the assumptions in order before any free
\* decision: from index decisionLevel() on it opens a level without
\* enqueuing for each assumption that is True, returns l_False with the
\* result of analyzeFinal on the negation of the first one that is False,
\* decides the first one that is Undef, and branches freely only when none
\* is left; and whenever propagation has ended without conflict, the
\* assumption of every opened level up to the number of assumptions is True.
C26_AssumptionsInOrder ==
    /\ [](\A w \in Workers : (pc[w] = "quiescent" /\ cc[w].failed = "") => AssumptionsTrue(w))
    /\ [][\A w \in Workers :
              NewDecisionStep(w) =>
                  AssumptionRule(cc[w], control.clAllocator, cc'[w], frame'[w].status,
                                 FirstNotTrue(cc[w], decisionLevel(cc[w])))]_vars

\* propagation has ended without conflict at a level opened for the second
\* assumption, which was True before the level was opened
C26_Witness ==
    \E w \in Workers :
        /\ pc[w] = "quiescent" /\ cc[w].failed = ""
        /\ Len(cc[w].assumptions) >= 2
        /\ decisionLevel(cc[w]) >= 2
        /\ cc[w].trail_lim[2] = cc[w].trail_lim[1] \/ cc[w].level[VarOf(cc[w].assumptions[2])] < 2
        /\ Len(cc[w].trail) > cc[w].trail_lim[2]

\* r, which pickBranchLit has returned for s, is a literal of a decision
\* variable that is Undef in s, or no literal with the order heap emptied
PickedBranchable(s, r) ==
    IF r.next = lit_Undef THEN r.s.order_heap = {}
    ELSE /\ r.next \in Lits(input.nVars)
         /\ value(s, r.next) = "U"
         /\ input.decision_var[VarOf(r.next)]

\* C27: whenever a worker is about to branch, whatever pickBranchLit may
\* return (a random pick, the variable of the highest activity, or the
\* literal that dominates it) is a literal of a decision variable that is
\* Undef, or lit_Undef with the order heap emptied; the assertion of
\* new_decision on the value of the literal never fails.
C27_PickBranchLit ==
    \A w \in Workers :
        /\ cc[w].failed # "new_decision: value(next) == l_Undef"
        /\ (pc[w] = "quiescent" /\ cc[w].failed = "" /\ ~NeedToStop(w)) =>
               \A a \in {assumptionLoop(cc[w], control.clAllocator)} :
                   (a.ret = "l_Undef" /\ a.next = lit_Undef) =>
                       \A r \in pickBranchLit(a.s) : PickedBranchable(a.s, r)

\* the worker has decided the literal that dominates the variable of the
\* highest activity, which stays in the order heap
C27_Witness ==
    \E w \in Workers :
        /\ pc[w] = "propagate" /\ cc[w].failed = ""
        /\ decisionLevel(cc[w]) >= 1
        /\ Len(cc[w].trail) = cc[w].trail_lim[decisionLevel(cc[w])] + 1
        /\ \E l \in Lits(input.nVars) :
               /\ input.litReachable[l] = Last(cc[w].trail)
               /\ VarOf(l) \in cc[w].order_heap
               /\ cc[w].assigns[VarOf(l)] = "U"


-----------------------------------------------------------------------------
(* Restarts *)

\* worker w takes the step of search() that handles a conflict
ConflictStep(w) == pc[w] = "conflict" /\ pc'[w] # "conflict"

\* the three reasons for which a conflict asks for a restart, the counter of
\* too low agilities read after this conflict has been counted
RestartAsked(w) ==
    \/ cc[w].needToInterrupt
    \/ cc'[w].numTooLow > numTooLowAgilitiesLimit
    \/ frame[w].params.conflictsDoneThisRestart > frame[w].params.conflictsToDo

\* search() returns l_Undef to solve()
ReturnsUndef(w) == pc'[w] = "after_search" /\ frame'[w].status = "l_Undef"

\* the restart itself: back at level 0, search() returns l_Undef
Restarted(w) ==
    \/ pc'[w] = "abort"
    \/ ReturnsUndef(w) /\ cc'[w].trail_lim = <<>>

\* what a call of search() starts with
SearchStarts(w) ==
    /\ cc'[w].numRestarts = cc[w].numRestarts + 1
    /\ cc'[w].glueHistory = <<>>
    /\ cc'[w].numTooLow = 0
    /\ ~frame'[w].params.needToStopSearch

\* C28: a conflict asks for a restart when the interrupt flag is set, when
\* the counter of too low agilities is over numTooLowAgilitiesLimit or when
\* conflictsDoneThisRestart is over conflictsToDo, and the request stays; the
\* handling of a conflict never returns l_Undef; the propagation that ends
\* without conflict while a restart is asked for cancels to level 0 and
\* returns l_Undef instead of deciding; every call of search() increments
\* numRestarts and clears the glue history and the agility
C28_RestartRequestedThenDone ==
    [][\A w \in Workers :
          /\ ConflictStep(w) =>
                frame'[w].params.needToStopSearch
                    = (frame[w].params.needToStopSearch \/ RestartAsked(w))
          /\ (pc[w] \in {"conflict", "import"} /\ pc'[w] # pc[w]) => ~ReturnsUndef(w)
          /\ (pc[w] = "quiescent" /\ pc'[w] # pc[w] /\ frame[w].params.needToStopSearch)
                => Restarted(w)
          /\ (pc[w] = "solve_loop" /\ pc'[w] = "propagate") => SearchStarts(w)]_vars

\* a restart asked for by a conflict has been carried out with a glue history
\* to clear, and solve() is about to call search() again
C28_Witness ==
    \E w \in Workers :
        /\ pc[w] = "solve_loop" /\ LoopCondition(w)
        /\ frame[w].params.needToStopSearch
        /\ cc[w].trail_lim = <<>>
        /\ cc[w].glueHistory # <<>>
        /\ cc[w].numTooLow > numTooLowAgilitiesLimit


-----------------------------------------------------------------------------
(* Minimisation of the learnt clause *)

\* what the loop of analyze leaves for the conflict worker w is about to handle
AnalyzeLoopAt(w) ==
    analyzeLoop(cc[w], control.clAllocator,
                [seen |-> cc[w].seen, pathC |-> 0, out_learnt |-> <<lit_Undef>>,
                 p |-> lit_Undef, failed |-> ""],
                frame[w].confl, lit_Undef, Len(cc[w].trail) - 1)

\* the clause analyze hands to minimiseLearntFurther
LearntBefore(st) == [st.out_learnt EXCEPT ![1] = Neg(st.p)]

\* the worker as analyze hands it to minimiseLearntFurther
BeforeMinim(s, st) ==
    [s EXCEPT !.seen = clearSeenLits(st.seen, [k \in 1..Len(st.out_learnt) |->
                                                  VarOf(LearntBefore(st)[k])], 1)]

\* sub[i..] is a sub-sequence of seq[j..]
RECURSIVE IsSubSeq(_, _, _, _)
IsSubSeq(sub, seq, i, j) ==
    IF i > Len(sub) THEN TRUE
    ELSE IF j > Len(seq) THEN FALSE
    ELSE IF sub[i] = seq[j] THEN IsSubSeq(sub, seq, i + 1, j + 1)
    ELSE IsSubSeq(sub, seq, i, j + 1)

\* the implication cache of literal lit holds ~x: (lit | ~x) is implied
ByCache(lit, x) == Neg(x) \in Range(input.implCache[lit])

\* the worker watches the binary clause (lit | ~x)
ByBin(s, lit, x) ==
    \E k \in 1..Len(s.watches[Neg(lit)]) :
        /\ s.watches[Neg(lit)][k].type = "binary"
        /\ s.watches[Neg(lit)][k].a = Neg(x)

\* the worker watches a ternary clause (lit | ~x | y) with y in cl
ByTri(s, cl, lit, x) ==
    \E k \in 1..Len(s.watches[Neg(lit)]) :
        /\ s.watches[Neg(lit)][k].type = "tri"
        /\ \/ s.watches[Neg(lit)][k].a = Neg(x) /\ s.watches[Neg(lit)][k].b \in Range(cl)
           \/ s.watches[Neg(lit)][k].b = Neg(x) /\ s.watches[Neg(lit)][k].a \in Range(cl)

\* literal x of cl can be resolved away against a clause that the rest of cl
\* subsumes
Justified(s, cl, x) ==
    \E i \in 1..Len(cl) : ByCache(cl[i], x) \/ ByBin(s, cl[i], x) \/ ByTri(s, cl, cl[i], x)

\* every total assignment that satisfies the input clauses satisfies cl
Entailed(cl) ==
    \A m \in [Vars(input.nVars) -> {"T", "F"}] :
        (\A c \in OriginalClauses : SatisfiedBy(m, c)) => SatisfiedBy(m, cl)

\* r is what minimiseLearntFurther has made of the clause cl of worker s
MinimisedOnly(s, cl, r) ==
    /\ Len(r.cl) >= 1 /\ r.cl[1] = cl[1]
    /\ IsSubSeq(r.cl, cl, 1, 1)
    /\ \A x \in Range(cl) \ Range(r.cl) : Justified(s, cl, x)
    /\ Entailed(r.cl)

\* the literals that minimiseLearntFurther takes out of the clause of st
Removed(s, st) ==
    Range(LearntBefore(st))
        \ Range(minimiseLearntFurther(BeforeMinim(s, st), LearntBefore(st)).cl)

\* C29: minimiseLearntFurther only removes literals.  For every conflict that
\* analyze is called for, the clause it returns is a sub-sequence of the
\* clause it is given, in the same order and with the same literal at
\* position 0; every literal taken out is the negation of an entry of the
\* implication cache of a literal of the clause, of a binary watch or of a
\* ternary watch whose third literal is in the clause; and every model of the
\* input clauses satisfies the clause returned.
C29_MinimiseOnlyRemoves ==
    \A w \in Workers :
        (pc[w] = "conflict" /\ decisionLevel(cc[w]) > 0 /\ input.doCache) =>
            \A st \in {AnalyzeLoopAt(w)} :
                (st.failed = "" /\ st.pathC = 0) =>
                    \A r \in {minimiseLearntFurther(BeforeMinim(cc[w], st), LearntBefore(st))} :
                        MinimisedOnly(BeforeMinim(cc[w], st), LearntBefore(st), r)

\* a conflict whose clause loses three literals, one to the cache, one to a
\* binary and one to a ternary watch
C29_Witness ==
    \E w \in Workers :
        /\ pc[w] = "conflict" /\ decisionLevel(cc[w]) > 0
        /\ \E st \in {AnalyzeLoopAt(w)} :
              /\ st.failed = "" /\ st.pathC = 0
              /\ \E rm \in {Removed(cc[w], st)} :
                    /\ Cardinality(rm) >= 3
                    /\ \E x \in rm : \E lit \in Range(LearntBefore(st)) \ rm :
                          ByCache(lit, x)
                    /\ \E x \in rm : \E lit \in Range(LearntBefore(st)) \ rm :
                          ByBin(BeforeMinim(cc[w], st), lit, x)
                    /\ \E x \in rm : \E lit \in Range(LearntBefore(st)) \ rm :
                          ByTri(BeforeMinim(cc[w], st), LearntBefore(st), lit, x)


\* the assertion at the head of minimiseLearntFurther has failed
CacheAssertFailed(w) == cc[w].failed = "minimiseLearntFurther: conf.doCache"

\* worker w handles a conflict above level 0, which analyze is called for
AnalysedStep(w) == ConflictStep(w) /\ decisionLevel(cc[w]) > 0

\* C30: further minimisation runs on every analysed conflict, whatever the
\* options and whatever the size and the glue of the clause: the handling of
\* a conflict above level 0 counts one more call of minimiseLearntFurther and
\* goes on to the import of the peers' clauses; and the assertion
\* conf.doCache of minimiseLearntFurther never fails, with doCache = false
\* too.
C30_MinimiseWhateverOptions ==
    /\ [](\A w \in Workers : ~CacheAssertFailed(w))
    /\ [][\A w \in Workers :
             AnalysedStep(w) =>
                 /\ cc'[w].furtherClMinim = cc[w].furtherClMinim + 1
                 /\ pc'[w] = "import"]_vars


-----------------------------------------------------------------------------
(* Publication of the level-0 literals *)

\* the entries the step has appended to the unit log
NewUnits ==
    SubSeq(control'.unitLearntsToAdd, Len(control.unitLearntsToAdd) + 1,
           Len(control'.unitLearntsToAdd))

\* the literals the step has put on the trail of worker w
NewOnTrail(w) == SubSeq(cc'[w].trail, Len(cc[w].trail) + 1, Len(cc'[w].trail))

\* worker w takes the step of search() that propagates
PropagateStep(w) == pc[w] = "propagate" /\ pc'[w] # "propagate"

\* worker w takes a step that integrates the clauses of its inbox
ImportStep(w) == pc[w] \in {"import", "barrier_import"} /\ pc'[w] # pc[w]

\* the positions of the unit log that thread w has appended
OwnUnits(w) == {i \in 1..Len(control.unitLearntsToAdd) : control.from.unit[i] = w}

\* no literal is twice among the entries of the unit log that w has appended,
\* and each of them is on the trail of w at level 0
OwnUnitsOnce(w) ==
    /\ \A i, j \in OwnUnits(w) :
          control.unitLearntsToAdd[i] = control.unitLearntsToAdd[j] => i = j
    /\ cc[w].failed = "" =>
          \A i \in OwnUnits(w) :
              /\ value(cc[w], control.unitLearntsToAdd[i]) = "T"
              /\ cc[w].level[VarOf(control.unitLearntsToAdd[i])] = 0

\* C31: a propagation of search() at decision level 0 appends to the unit log
\* exactly the literals it has put on the trail, in their order, and a
\* propagation above level 0 appends nothing; the integration of the peers'
\* clauses appends nothing, whatever it enqueues; and no literal is twice
\* among the units a worker has published, the learnt units of
\* handle_conflict included.
C31_Level0PublishedOnce ==
    /\ [](\A w \in Workers : OwnUnitsOnce(w))
    /\ [][\A w \in Workers :
             /\ PropagateStep(w) =>
                   NewUnits = IF cc'[w].trail_lim = <<>> THEN NewOnTrail(w) ELSE <<>>
             /\ ImportStep(w) => NewUnits = <<>>]_vars

\* the last entry of the unit log is a literal that worker w has propagated at
\* level 0, after it has learnt and published a unit itself and has
\* enqueued a unit of its peer
C31_Witness ==
    \E w \in Workers :
        /\ cc[w].failed = "" /\ cc[w].trail_lim = <<>>
        /\ Len(control.unitLearntsToAdd) >= 3
        /\ control.from.unit[Len(control.unitLearntsToAdd)] = w
        /\ cc[w].reason[VarOf(Last(control.unitLearntsToAdd))].type # "null_clause_t"
        /\ \E i \in OwnUnits(w) :
              cc[w].reason[VarOf(control.unitLearntsToAdd[i])].type = "null_clause_t"
        /\ \E i \in 1..Len(control.unitLearntsToAdd) :
              /\ control.from.unit[i] # w
              /\ i \in cc[w].got.unit
              /\ \A j \in OwnUnits(w) :
                    control.unitLearntsToAdd[j] # control.unitLearntsToAdd[i]
              /\ value(cc[w], control.unitLearntsToAdd[i]) = "T"


-----------------------------------------------------------------------------
(* The critical section of handle_conflict *)

Logs == {"unit", "bin", "long"}

\* the log named of the coordinator ctl
LogOf(ctl, which) ==
    CASE which = "unit" -> ctl.unitLearntsToAdd
      [] which = "bin"  -> ctl.binLearntsToAdd
      [] OTHER          -> ctl.longLearntsToAdd

\* the cursor of worker s into the log named
CursorOf(s, which) ==
    CASE which = "unit" -> s.lastUnit
      [] which = "bin"  -> s.lastBin
      [] OTHER          -> s.lastLong

\* the step of worker w has drained the log named to its end and has
\* appended nothing to it
DrainedOnly(w, which) ==
    /\ LogOf(control', which) = LogOf(control, which)
    /\ CursorOf(cc'[w], which) = Len(LogOf(control, which))
    /\ cc'[w].got[which] =
           cc[w].got[which] \cup (CursorOf(cc[w], which) + 1 .. Len(LogOf(control, which)))

\* the step of worker w has drained the log named to its end and has then
\* appended one entry of its own, which its cursor has passed and its inbox
\* has not received
DrainedThenAppended(w, which) ==
    /\ Len(LogOf(control', which)) = Len(LogOf(control, which)) + 1
    /\ SubSeq(LogOf(control', which), 1, Len(LogOf(control, which))) = LogOf(control, which)
    /\ control'.from[which][Len(LogOf(control', which))] = w
    /\ CursorOf(cc'[w], which) = Len(LogOf(control', which))
    /\ cc'[w].got[which] =
           cc[w].got[which] \cup (CursorOf(cc[w], which) + 1 .. Len(LogOf(control, which)))

\* the watches of worker s on the long clause at offset off
WatchesOn(s, off) ==
    {pk \in UNION {{<<p, k>> : k \in 1..Len(s.watches[p])} : p \in DOMAIN s.watches} :
        /\ s.watches[pk[1]][pk[2]].type = "clause"
        /\ s.watches[pk[1]][pk[2]].a = off}

\* worker w has not received in its inbox a clause it has learnt itself: no
\* binary or long entry of its own, and of the units it has appended only
\* those it has propagated; a long clause of its own is watched twice
OwnLearntNotInInbox(w) ==
    /\ \A i \in cc[w].got.bin \cap DOMAIN control.from.bin : control.from.bin[i] # w
    /\ \A i \in cc[w].got.long \cap DOMAIN control.from.long : control.from.long[i] # w
    /\ \A i \in cc[w].got.unit \cap DOMAIN control.from.unit :
          control.from.unit[i] = w =>
              cc[w].reason[VarOf(control.unitLearntsToAdd[i])].type # "null_clause_t"
    /\ \A i \in 1..Len(control.longLearntsToAdd) :
          (control.from.long[i] = w
             /\ Len(control.clAllocator[control.longLearntsToAdd[i]]) > 3) =>
                Cardinality(WatchesOn(cc[w], control.longLearntsToAdd[i])) = 2

\* C32: the step of handle_conflict that learns a clause drains the three
\* logs to their ends and appends the clause to the log of its size with no
\* entry of a peer between the drain and the append; once the cursor is
\* incremented it equals the length of that log; and a worker never
\* receives its own learnt clause in its inbox, so that the clause stays
\* attached once.
C32_DrainAndAppendAtomic ==
    /\ [](\A w \in Workers : cc[w].failed = "" => OwnLearntNotInInbox(w))
    /\ [][\A w \in Workers :
             (ConflictStep(w) /\ pc'[w] = "import") =>
                 \E which \in Logs :
                     /\ DrainedThenAppended(w, which)
                     /\ \A other \in Logs \ {which} : DrainedOnly(w, other)]_vars

\* a worker has drained a clause of its peer and appended its own in the same
\* step, and has since drained the logs again
C32_Witness ==
    \E w \in Workers : \E which \in {"bin", "long"} :
        \E i, j, k \in 1..Len(LogOf(control, which)) :
            /\ i < j /\ j < k
            /\ control.from[which][i] # w /\ i \in cc[w].got[which]
            /\ control.from[which][j] = w /\ j = i + 1
            /\ control.from[which][k] # w /\ k \in cc[w].got[which]
            /\ cc[w].failed = ""


-----------------------------------------------------------------------------
(* The second watch of the learnt clause *)

\* the clause of two or more literals that the step has appended to a log
LearntAppended ==
    IF Len(control'.binLearntsToAdd) > Len(control.binLearntsToAdd)
    THEN Last(control'.binLearntsToAdd)
    ELSE IF Len(control'.longLearntsToAdd) > Len(control.longLearntsToAdd)
    THEN control'.clAllocator[Last(control'.longLearntsToAdd)]
    ELSE <<>>

\* position 1 of cl holds a literal of the highest level among positions 1..,
\* and worker s stands at that level
SecondWatchHighest(s, cl) ==
    /\ s.level[VarOf(cl[2])] = decisionLevel(s)
    /\ \A i \in 2..Len(cl) : s.level[VarOf(cl[i])] <= s.level[VarOf(cl[2])]

\* C33: when handle_conflict attaches a learnt clause of two or more
\* literals, position 1 of the clause as it is attached (after the sort by
\* PolaritySorter) holds the literal of the highest decision level among
\* positions 1.., and that level is the level the worker has backtracked to.
C33_SecondWatchAtBacktrackLevel ==
    [][\A w \in Workers :
          (ConflictStep(w) /\ pc'[w] = "import" /\ LearntAppended # <<>>) =>
              SecondWatchHighest(cc'[w], LearntAppended)]_vars

-----------------------------------------------------------------------------
(* The pivot of a long reason *)

\* the variables that seen marks
Marked(seen) == {x \in DOMAIN seen : seen[x] # 0}

\* the variables above level 0 of the literals of cl other than pivot
OthersAbove0(s, cl, pivot) ==
    {VarOf(cl[i]) : i \in {k \in 1..Len(cl) : cl[k] # pivot /\ s.level[VarOf(cl[k])] > 0}}

\* the trail literals of the current level of s that a long clause has propagated
LongReasoned(s) ==
    {q \in Range(s.trail) : /\ s.reason[VarOf(q)].type = "clause_t"
                            /\ s.level[VarOf(q)] = decisionLevel(s)}

\* the variables analyze marks when it resolves on q, none being marked before
AnalyzeVisits(s, alloc, q) ==
    Marked(analyzeReason(s, alloc,
                         [seen |-> [x \in DOMAIN s.seen |-> 0], pathC |-> 0,
                          out_learnt |-> <<lit_Undef>>, p |-> q, failed |-> ""],
                         s.reason[VarOf(q)], q).seen)

\* the variables analyzeFinal marks when it resolves on q, none being marked before
AnalyzeFinalVisits(s, alloc, q) ==
    Marked(analyzeFinalClause(s, [x \in DOMAIN s.seen |-> 0], alloc[s.reason[VarOf(q)].a], 1))

\* worker w is about to handle a conflict by analyze
AnalyzeCalled(w) == pc[w] = "conflict" /\ decisionLevel(cc[w]) > 0 /\ cc[w].failed = ""

\* worker w is about to call analyzeFinal on q, the negation of the next
\* assumption, and q is the last literal of the trail: the walk of
\* analyzeFinal starts by resolving on q
AnalyzeFinalCalled(w, q) ==
    /\ pc[w] = "quiescent" /\ ~Aborted /\ ~NeedToStop(w)
    /\ 0 < decisionLevel(cc[w]) /\ decisionLevel(cc[w]) < Len(cc[w].assumptions)
    /\ q = Neg(At(cc[w].assumptions, decisionLevel(cc[w])))
    /\ cc[w].trail # <<>> /\ q = Last(cc[w].trail)
    /\ cc[w].reason[VarOf(q)].type = "clause_t"

\* analyze, resolving against a long reason, visits every literal of the
\* clause but the one the clause has propagated
AnalyzeSkipsPivot ==
    \A w \in Workers : AnalyzeCalled(w) =>
        \A q \in LongReasoned(cc[w]) :
            AnalyzeVisits(cc[w], control.clAllocator, q)
                = OthersAbove0(cc[w], control.clAllocator[cc[w].reason[VarOf(q)].a], q)

\* C34: conflict analysis that resolves against a long reason clause skips
\* exactly the pivot, the literal that clause has propagated, and visits
\* every other literal of the clause, in analyze and in analyzeFinal alike,
\* wherever the pivot stands in the clause.
C34_PivotSkipped ==
    /\ AnalyzeSkipsPivot
    /\ \A w \in Workers : \A q \in Range(cc[w].trail) :
           AnalyzeFinalCalled(w, q) =>
               AnalyzeFinalVisits(cc[w], control.clAllocator, q)
                   = OthersAbove0(cc[w], control.clAllocator[cc[w].reason[VarOf(q)].a], q)

-----------------------------------------------------------------------------
(* Completeness of the order heap *)

\* the decision variables of worker s that are Undef
UndefDecisionVars(s) ==
    {x \in Vars(input.nVars) : input.decision_var[x] /\ s.assigns[x] = "U"}

\* worker w is in search() between a propagation without conflict and
\* new_decision, where pickBranchLit is called
AtPickBranchLit(w) == pc[w] = "quiescent" /\ cc[w].failed = ""

\* C35: whenever pickBranchLit can be called, every decision variable that is
\* Undef is in the order heap; so an empty heap means that every decision
\* variable is assigned.
C35_OrderHeapComplete ==
    \A w \in Workers : AtPickBranchLit(w) =>
        /\ UndefDecisionVars(cc[w]) \subseteq cc[w].order_heap
        /\ cc[w].order_heap = {} => UndefDecisionVars(cc[w]) = {}

\* after a conflict the worker is back below the level of a variable it had
\* taken from the heap to decide it (the variable still has the level and the
\* reason of a decision): cancelUntil has put the variable back
C35_Witness ==
    \E w \in Workers :
        /\ AtPickBranchLit(w)
        /\ cc[w].numConflicts > 0
        /\ input.assumps = <<>> /\ ~input.random_var_freq
        /\ \E x \in UndefDecisionVars(cc[w]) :
               /\ x \in cc[w].order_heap
               /\ cc[w].level[x] > 0
               /\ cc[w].reason[x].type = "null_clause_t"

-----------------------------------------------------------------------------
(* The propagation queue *)

\* the trail indices of worker s that propagate has still to take
Pending(s) == {i \in 0..(Len(s.trail) - 1) : i >= s.qhead}

\* qhead is an index into the trail or its size, and the literals that wait
\* for propagation are of the current decision level
QueueAtCurrentLevel(s) ==
    /\ s.qhead <= Len(s.trail)
    /\ \A i \in Pending(s) : s.level[VarOf(At(s.trail, i))] = decisionLevel(s)

\* the steps of worker w that call propagate(): initialiseSolver, in the
\* first step of solve(), and search()
PropagateCalled(w) == pc[w] \in {"idle", "propagate"}

\* in a step that does not call propagate(), the trail below the new qhead
\* is trail that lay below the old qhead: qhead has not gone past a literal
\* that propagate has not taken
NothingJumped(w) ==
    \A i \in 0..(cc'[w].qhead - 1) :
        /\ i < cc[w].qhead
        /\ i < Len(cc[w].trail)
        /\ At(cc'[w].trail, i) = At(cc[w].trail, i)

\* C36: qhead never exceeds trail.size(); every literal that waits for
\* propagation is of the current decision level, whether propagation,
\* an import or handle_conflict has enqueued it; and only propagate() moves
\* qhead over a literal that stays on the trail, so cancelUntil never moves
\* it forward past an unpropagated literal.
C36_QueueInvariant ==
    /\ [](\A w \in Workers : cc[w].failed = "" => QueueAtCurrentLevel(cc[w]))
    /\ [][\A w \in Workers :
             (cc'[w].failed = "" /\ ~PropagateCalled(w)) => NothingJumped(w)]_vars


\* above level 0 two literals wait for propagation, neither of them a
\* decision: the asserting literal that handle_conflict has enqueued after
\* its cancelUntil and a literal that the import after it has enqueued
C36_Witness ==
    \E w \in Workers :
        /\ pc[w] = "propagate" /\ cc[w].failed = ""
        /\ decisionLevel(cc[w]) >= 1
        /\ Cardinality({i \in Pending(cc[w]) :
                           cc[w].reason[VarOf(At(cc[w].trail, i))].type # "null_clause_t"}) >= 2

-----------------------------------------------------------------------------
(* The clause set of the Simplifier *)

\* the entries of the set: the slots of which that hold a clause
Entries(cs) == {cs.which[k] : k \in {j \in DOMAIN cs.which : cs.which[j].clause # 0}}

\* the clause indices that are present in the set
PresentIdx(cs) == {e.index : e \in Entries(cs)}

\* what add(c) has made of the set cs and what it has returned
AddRule(cs, c, after, ret) ==
    /\ ret = (c.index \in PresentIdx(cs))
    /\ IF ret
       THEN \* only the abstraction of the entry changes
            /\ Len(after.which) = Len(cs.which)
            /\ after.free = cs.free
            /\ \A k \in DOMAIN cs.which :
                   after.which[k] = IF cs.which[k].clause # 0 /\ cs.which[k].index = c.index
                                    THEN [cs.which[k] EXCEPT !.abst = c.abst]
                                    ELSE cs.which[k]
       ELSE /\ Entries(after) = Entries(cs) \cup {c}
            /\ IF cs.free # <<>>
               THEN \* the slot freed last is taken
                    /\ after.which = [cs.which EXCEPT ![Last(cs.free) + 1] = c]
                    /\ after.free = SubSeq(cs.free, 1, Len(cs.free) - 1)
               ELSE /\ after.which = Append(cs.which, c)
                    /\ after.free = <<>>

\* what exclude(c) has made of the set cs and what it has returned
ExcludeRule(cs, c, after, ret) ==
    /\ ret = (c.index \in PresentIdx(cs))
    /\ PresentIdx(after) = PresentIdx(cs) \ {c.index}

\* C37: add(c) returns true iff an entry of index c.index is present, and
\* then changes only the abstraction of that entry; otherwise it inserts c,
\* into the slot freed last if there is a free slot, and returns false.
\* exclude(c) returns true iff c.index was present, and c.index is absent
\* afterwards.  nElems() = size() - |free| is the number of present entries
\* after any sequence of calls.
C37_AddExcludeResults ==
    /\ [](nElems(simp.set) = Cardinality(PresentIdx(simp.set)))
    /\ [][/\ simp'.last.op = "add" =>
                AddRule(simp.set, simp'.last.c, simp'.set, simp'.last.ret)
          /\ simp'.last.op = "exclude" =>
                ExcludeRule(simp.set, simp'.last.c, simp'.set, simp'.last.ret)]_vars

\* add has put a clause into slot 1, the slot freed last, while slot 0,
\* freed before it, is still free
C37_Witness ==
    /\ simp.last.op = "add" /\ ~simp.last.ret
    /\ simp.set.free = <<0>>
    /\ Len(simp.set.which) = 2
    /\ simp.set.which[2] = simp.last.c

\* where[i] names the slot of the entry of index i, and the free slots are empty
Structure(cs) ==
    /\ \A i \in 0..(Len(cs.where) - 1) :
           At(cs.where, i) # -1 =>
               /\ At(cs.where, i) \in 0..(Len(cs.which) - 1)
               /\ At(cs.which, At(cs.where, i)).index = i
               /\ At(cs.which, At(cs.where, i)).clause # 0
    /\ \A k \in DOMAIN cs.free :
           /\ cs.free[k] \in 0..(Len(cs.which) - 1)
           /\ At(cs.which, cs.free[k]).clause = 0
           /\ \A j \in DOMAIN cs.free : cs.free[j] = cs.free[k] => j = k

\* C38: after any sequence of add, exclude, update and clear, where[i] != -1
\* implies that slot where[i] of which holds a clause of index i; every slot
\* listed in free holds Clause_NULL and is listed once; and after clear() no
\* index is present: where[i] == -1 for every i.
C38_CSetStructure ==
    /\ Structure(simp.set)
    /\ simp.last.op = "clear" =>
           \A i \in 0..(Len(simp.set.where) - 1) : At(simp.set.where, i) = -1

\* clear() has been called on a set that has known both indices
C38_Witness ==
    /\ simp.last.op = "clear"
    /\ Len(simp.set.where) = MaxIndex + 1

\* C39: subset(A, B, seen), called with seen all false, returns true iff
\* every literal of A occurs in B, and leaves seen all false whether it
\* returns true or false.
C39_SubsetTest ==
    simp.last.op = "subset" =>
        /\ simp.last.ret = (Range(simp.last.A) \subseteq Range(simp.last.B))
        /\ \A l \in DOMAIN simp.seen : ~simp.seen[l]

\* subset has returned false at the second literal of A, with B marked
C39_Witness ==
    /\ simp.last.op = "subset" /\ ~simp.last.ret
    /\ Len(simp.last.A) = 2 /\ simp.last.B # <<>>
    /\ simp.last.A[1] \in Range(simp.last.B)
    /\ simp.last.A[2] \notin Range(simp.last.B)

-----------------------------------------------------------------------------
(* The scratch array seen *)

\* no entry of the seen array of worker s is set
SeenClear(s) == \A l \in DOMAIN s.seen : s.seen[l] = 0

\* seen is all-zero wherever analyze and minimiseLearntFurther have
\* returned and analyzeFinal has not been called
SeenClearAfterAnalyze ==
    \A w \in Workers : (cc[w].failed = "" /\ cc[w].conflict = <<>>) => SeenClear(cc[w])

\* C40: seen is all-zero on exit from analyze, from minimiseLearntFurther
\* and from analyzeFinal, whatever the trail and the conflict, the early exit
\* of the trail walk of analyzeFinal included: no step of a worker leaves a
\* flag set.
C40_SeenAllZero ==
    \A w \in Workers : cc[w].failed = "" => SeenClear(cc[w])

=============================================================================
